---- MODULE Spec2Model ----
(***************************************************************************)
(* The glTF resource-loading pipeline: the reference-counted resource      *)
(* cache and the loaders that request each other through it                *)
(* (GltfBufferViewLoader, GltfImageLoader, GltfDracoLoader,                *)
(* GltfJsonLoader), with the asynchronous completions that drive them.     *)
(*                                                                         *)
(* A loader instance is a record of the fields its constructor sets, plus  *)
(* the position of its promise chain (pc), the loader captured by the      *)
(* chain's closure (dep) and history counters.  A JavaScript undefined is  *)
(* the empty tuple, a defined value v is <<v>>.  Every handler is one      *)
(* action: the calls it makes into the cache and into other loaders        *)
(* (load, unload, destroy) are evaluated inside it by the recursive        *)
(* operators below, which thread the record                                *)
(*   st = [entries, loaders, errors, gltf, ret]                            *)
(* through the call.  A promise handler is a step of its own, enabled once  *)
(* the promise it waits for has settled, and it runs before anything else  *)
(* happens: the calls of the owners and the completions of fetches and     *)
(* decodes wait until no handler is due (Quiescent), as they do when the   *)
(* promise library runs handlers at settlement or in microtasks.           *)
(*                                                                         *)
(* ResourceCache.js and the leaf BufferLoader are not among the sources;   *)
(* they are modelled from sections 4.2 and 4.3 of the specification.  A    *)
(* rejected unload is counted in errors and changes nothing else.          *)
(***************************************************************************)
EXTENDS Integers, Sequences, FiniteSets, TLC

\* ------------------------------------------------------------------ bounds
\* Loader instances ever constructed.
MaxLoaders == 3
\* Cache load calls made by the owners outside the pipeline.
MaxClientLoads == 2
\* Unload calls made by an owner on a loader that is not registered.
MaxStaleUnloads == 1

VARIABLES
  cacheEntries,  \* ResourceCache: cache key -> [loader, referenceCount]
  loaders,       \* every loader instance ever constructed; its index is its identity
  clientRefs,    \* references the owners outside the pipeline hold, per instance
  clientLoads,   \* cache load calls the owners have made
  staleUnloads,  \* unload calls the owners made on unregistered loaders
  errors,        \* unload calls the cache rejected
  gltf,          \* the document the loaders are given
  scene,         \* the document's nodes, meshes, primitives and materials
  gltfLoader,    \* the GltfLoader
  model,         \* the model the GltfLoader fills and ModelRuntime updates
  extension,     \* a feature metadata extension and the buffer views requested for it
  subdivision    \* a call of ImplicitSubdivisionScheme.getBranchingFactor

vars == <<cacheEntries, loaders, clientRefs, clientLoads, staleUnloads, errors, gltf,
          scene, gltfLoader, model, extension, subdivision>>

\* ----------------------------------------------------------------- values
undefined == <<>>
defined(x) == x # undefined
value(x) == x[1]

\* The bytes of the one ArrayBuffer every typed array of the model views.
ArrayBufferBytes == <<11, 12, 13, 14>>

\* new Uint8Array(buffer, byteOffset, byteLength): a view, not a copy.
Uint8Array(byteOffset, byteLength) ==
  [byteOffset |-> byteOffset, byteLength |-> byteLength]

\* typedArray[i], 0 <= i < typedArray.byteLength
ByteAt(typedArray, i) == ArrayBufferBytes[typedArray.byteOffset + i + 1]

\* The construction throws a RangeError when the range leaves the ArrayBuffer.
RangeOk(byteOffset, byteLength) ==
  byteOffset + byteLength <= Len(ArrayBufferBytes)

ResourceLoaderState ==
  {"UNLOADED", "LOADING", "PROCESSING", "READY", "FAILED", "DESTROYED"}

\* ------------------------------------------------------------- cache keys
BufferKey == "buffer"
EmbeddedBufferKey == "embeddedBuffer"
BufferViewKey == "bufferView"
ImageKey == "image"
ImageUriKey == "imageUri"
DracoKey == "draco"
GltfKey == "gltf"
SchemaKey == "schema"
\* The vertex buffer of a buffer view and that of a Draco attribute, the
\* index buffer of an accessor and that of a Draco primitive, a texture.
TextureKeys == <<"texture0", "texture1">>
GpuKeys == {"vertexBuffer", "vertexBufferDraco", "indexBuffer", "indexBufferDraco"}
             \cup {TextureKeys[i] : i \in 1..Len(TextureKeys)}
\* A feature metadata loader has no cache key; this names its kind.
FeatureMetadataKey == "featureMetadata"

\* The keys an owner outside the pipeline requests.
ClientKeys == {BufferKey, BufferViewKey, ImageKey, ImageUriKey, DracoKey, GltfKey}

Kind(key) ==
  CASE key \in {BufferKey, EmbeddedBufferKey} -> "buffer"
    [] key = BufferViewKey -> "bufferView"
    [] key \in {ImageKey, ImageUriKey} -> "image"
    [] key = DracoKey -> "draco"
    [] key = GltfKey -> "gltf"
    [] key = SchemaKey -> "schema"
    [] key \in {"vertexBuffer", "vertexBufferDraco"} -> "vertexBuffer"
    [] key \in {"indexBuffer", "indexBufferDraco"} -> "indexBuffer"
    [] key \in {TextureKeys[i] : i \in 1..Len(TextureKeys)} -> "texture"
    [] key = FeatureMetadataKey -> "featureMetadata"

\* The constructor of every loader: no handle, no result, UNLOADED, a fresh deferred.
\*   child                 _bufferLoader, _bufferViewLoader, _schemaCacheResource
\*   bufferLoaders         GltfJsonLoader._bufferLoaders,
\*                         GltfFeatureMetadataLoader._bufferViewCacheResources
\*   result                _typedArray, _image, _decodedData, _gltf, _featureMetadata
\*   bufferViewTypedArray  GltfDracoLoader._bufferViewTypedArray
\*   decodePromise         GltfDracoLoader._decodePromise is defined
\*   pc, dep               the promise chain's position and the loader it captured
\* and the history: calls of load(), of resolve and reject on the deferred,
\* cache loads minus cache unloads this loader made (refsHeld), a success or a
\* failure delivered after destroy() (lateSuccess, lateFailure), a failure
\* delivered before it (failedLive), decode tasks in flight (decodes), the
\* parent's typed array the buffer view was cut from (parentTypedArray), and
\* the cache's load calls that returned this loader and unload calls made on
\* it (cacheLoads, cacheUnloads), what getMimeTypeFromTypedArray made of the
\* image's bytes (mimeType) and the decode function the image loader called
\* with them (decoder), and the state the loader was in when update() was
\* last called on it (updatedIn), and whether a continuation found the loader
\* UNLOADED (sawUnloaded), and the steps of processGltf that have finished
\* (steps).
NewLoader(key) ==
  [kind |-> Kind(key), cacheKey |-> key, state |-> "UNLOADED", isDestroyed |-> FALSE,
   child |-> undefined, bufferLoaders |-> <<>>, result |-> undefined,
   bufferViewTypedArray |-> undefined, decodePromise |-> FALSE,
   pc |-> "new", dep |-> undefined,
   promise |-> "pending", resolveCalls |-> 0, rejectCalls |-> 0,
   loadCalls |-> 0, refsHeld |-> 0, lateSuccess |-> FALSE, lateFailure |-> FALSE,
   failedLive |-> FALSE, decodes |-> 0, parentTypedArray |-> undefined,
   cacheLoads |-> 0, cacheUnloads |-> 0,
   mimeType |-> undefined, decoder |-> undefined, updatedIn |-> undefined,
   sawUnloaded |-> FALSE, steps |-> <<>>]

\* deferred.resolve / deferred.reject: the first call settles the promise.
Resolve(st, id) ==
  [st EXCEPT !.loaders[id].resolveCalls = @ + 1,
             !.loaders[id].promise = IF @ = "pending" THEN "resolved" ELSE @]

Reject(st, id) ==
  [st EXCEPT !.loaders[id].rejectCalls = @ + 1,
             !.loaders[id].promise = IF @ = "pending" THEN "rejected" ELSE @]

\* What a continuation records about the moment it ran.
Late(st, id, field) ==
  IF st.loaders[id].isDestroyed
  THEN [st EXCEPT !.loaders[id][field] = TRUE]
  ELSE st

RemoveKey(entries, key) == [k \in DOMAIN entries \ {key} |-> entries[k]]

Registered(st, id) ==
  LET key == st.loaders[id].cacheKey
  IN  key \in DOMAIN st.entries /\ st.entries[key].loader = id

RECURSIVE CacheLoad(_, _)
RECURSIVE LoaderLoad(_, _)
RECURSIVE CacheUnload(_, _)
RECURSIVE LoaderDestroy(_, _)
RECURSIVE UnloadEach(_, _)

\* ----------------------------------------------------------- BufferLoader
\* load(): an external buffer issues the fetch; an embedded buffer is given
\* its bytes and resolves at once.
BufferLoad(st, id) ==
  IF st.loaders[id].cacheKey = EmbeddedBufferKey
  THEN Resolve([st EXCEPT !.loaders[id].state = "READY",
                          !.loaders[id].result = <<st.gltf.embedded>>,
                          !.loaders[id].pc = "done"], id)
  ELSE [st EXCEPT !.loaders[id].state = "LOADING", !.loaders[id].pc = "fetch"]

\* destroy(): the bytes are dropped; a fetch still in flight is discarded.
BufferDestroy(st, id) ==
  [st EXCEPT !.loaders[id].result = undefined,
             !.loaders[id].state = "DESTROYED",
             !.loaders[id].isDestroyed = TRUE,
             !.loaders[id].pc = "done"]

\* The fetch completes with the bytes.
BufferFetchThen(st, id) ==
  Resolve([st EXCEPT !.loaders[id].result = <<st.gltf.buffer>>,
                     !.loaders[id].state = "READY",
                     !.loaders[id].pc = "done"], id)

\* The fetch fails.
BufferFetchOtherwise(st, id) ==
  Reject([st EXCEPT !.loaders[id].state = "FAILED",
                    !.loaders[id].pc = "done"], id)

\* ----------------------------------------------------- GltfBufferViewLoader
getBufferLoaderPrivate(st, id) ==
  LET new == Len(st.loaders) + 1
      st1 == [st EXCEPT !.loaders = Append(@, NewLoader(BufferKey))]
  IN  [LoaderLoad(st1, new) EXCEPT !.ret = new]

\* getBufferLoader: the parent buffer comes from the cache.
getBufferLoader(st, id) ==
  LET st1 == CacheLoad(st, BufferKey)
  IN  [st1 EXCEPT !.loaders[id].refsHeld = @ + 1]

\* unload: releases the parent buffer and drops the view.
BufferViewUnload(st, id) ==
  LET st1 == IF defined(st.loaders[id].child)
             THEN [CacheUnload(st, value(st.loaders[id].child))
                     EXCEPT !.loaders[id].refsHeld = @ - 1]
             ELSE st
  IN  [st1 EXCEPT !.loaders[id].child = undefined,
                  !.loaders[id].result = undefined]

BufferViewLoad(st, id) ==
  LET st1 == getBufferLoader(st, id)
  IN  [st1 EXCEPT !.loaders[id].state = "LOADING",
                  !.loaders[id].child = <<st1.ret>>,
                  !.loaders[id].dep = <<st1.ret>>,
                  !.loaders[id].pc = "wait"]

BufferViewDestroy(st, id) ==
  LET st1 == BufferViewUnload(st, id)
  IN  [st1 EXCEPT !.loaders[id].state = "DESTROYED",
                  !.loaders[id].isDestroyed = TRUE]

\* The handler of .otherwise: unload, FAILED, reject.
BufferViewOtherwise(st, id) ==
  LET st1 == Late(BufferViewUnload(st, id), id, "lateFailure")
  IN  Reject([st1 EXCEPT !.loaders[id].state = "FAILED",
                         !.loaders[id].pc = "done",
                         !.loaders[id].failedLive = ~st.loaders[id].isDestroyed], id)

BufferViewSliceNoParentOffset(bufferTypedArray, byteOffset, byteLength) ==
  Uint8Array(byteOffset, byteLength)

\* The view of the parent's bytes the handler constructs.
BufferViewSlice(bufferTypedArray, byteOffset, byteLength) ==
  Uint8Array(bufferTypedArray.byteOffset + byteOffset, byteLength)

\* The rest of the .then handler, on a loader that is not destroyed.  A throw
\* inside it (the parent's typedArray is gone, or the range leaves the
\* ArrayBuffer) rejects the derived promise, which runs the .otherwise handler.
BufferViewPublish(st, id) ==
  LET parent == st.loaders[value(st.loaders[id].dep)]
  IN  IF ~defined(parent.result)
      THEN BufferViewOtherwise(st, id)
      ELSE LET bufferTypedArray == value(parent.result)
               view == BufferViewSlice(bufferTypedArray, st.gltf.byteOffset,
                                       st.gltf.byteLength)
           IN  IF ~RangeOk(view.byteOffset, view.byteLength)
               THEN BufferViewOtherwise(st, id)
               ELSE Resolve([st EXCEPT
                      !.loaders[id].result = <<view>>,
                      !.loaders[id].parentTypedArray = <<bufferTypedArray>>,
                      !.loaders[id].state = "READY",
                      !.loaders[id].pc = "done"], id)

\* The handler of .then on the buffer loader's promise.
BufferViewThen(st, id) ==
  IF st.loaders[id].state = "DESTROYED"
  THEN [BufferViewUnload(st, id) EXCEPT !.loaders[id].pc = "done",
                                        !.loaders[id].lateSuccess = TRUE]
  ELSE BufferViewPublish(st, id)

\* -------------------------------------------------------- GltfImageLoader
\* unload that leaves _bufferViewLoader assigned.
ImageUnloadKeepsLoader(st, id) ==
  LET st1 == IF defined(st.loaders[id].child)
             THEN [CacheUnload(st, value(st.loaders[id].child))
                     EXCEPT !.loaders[id].refsHeld = @ - 1]
             ELSE st
  IN  [st1 EXCEPT !.loaders[id].result = undefined]

\* unload: releases the buffer view, drops the uri, the image and the glTF.
ImageUnload(st, id) ==
  LET st1 == IF defined(st.loaders[id].child)
             THEN [CacheUnload(st, value(st.loaders[id].child))
                     EXCEPT !.loaders[id].refsHeld = @ - 1]
             ELSE st
  IN  [st1 EXCEPT !.loaders[id].child = undefined,
                  !.loaders[id].result = undefined]

loadFromBufferView(st, id) ==
  LET st0 == CacheLoad(st, BufferViewKey)
      st1 == [st0 EXCEPT !.loaders[id].refsHeld = @ + 1]
  IN  [st1 EXCEPT !.loaders[id].state = "LOADING",
                  !.loaders[id].child = <<st1.ret>>,
                  !.loaders[id].dep = <<st1.ret>>,
                  !.loaders[id].pc = "wait"]

loadFromUri(st, id) ==
  [st EXCEPT !.loaders[id].state = "LOADING", !.loaders[id].pc = "fetch"]

\* load(): the image is embedded in a buffer view, or fetched from its uri.
ImageLoad(st, id) ==
  IF st.loaders[id].cacheKey = ImageKey
  THEN loadFromBufferView(st, id)
  ELSE loadFromUri(st, id)

ImageDestroy(st, id) ==
  LET st1 == ImageUnload(st, id)
  IN  [st1 EXCEPT !.loaders[id].state = "DESTROYED",
                  !.loaders[id].isDestroyed = TRUE]

ImageHandleErrorKeepBufferView(st, id) ==
  Reject([Late(st, id, "lateFailure") EXCEPT
            !.loaders[id].state = "FAILED",
            !.loaders[id].result = undefined,
            !.loaders[id].pc = "done",
            !.loaders[id].failedLive = ~st.loaders[id].isDestroyed], id)

\* handleError: unload, FAILED, reject.
ImageHandleError(st, id) ==
  LET st1 == Late(ImageUnload(st, id), id, "lateFailure")
  IN  Reject([st1 EXCEPT !.loaders[id].state = "FAILED",
                         !.loaders[id].pc = "done",
                         !.loaders[id].failedLive = ~st.loaders[id].isDestroyed], id)

\* typedArray.subarray(begin, end)[i]: undefined (here -1) past the end of
\* either array.
SubarrayAt(typedArray, begin, end, i) ==
  IF begin + i < end /\ begin + i < Len(typedArray)
  THEN typedArray[begin + i + 1]
  ELSE -1

getMimeTypeFromTypedArrayLenient(typedArray) == "image/png"

\* getMimeTypeFromTypedArray: the mime type of the signature the bytes start
\* with, "RuntimeError" when it throws.  Bytes are written in decimal.
getMimeTypeFromTypedArray(typedArray) ==
  LET header(i) == SubarrayAt(typedArray, 0, 2, i)
      webpHeaderRIFFChars(i) == SubarrayAt(typedArray, 0, 4, i)
      webpHeaderWEBPChars(i) == SubarrayAt(typedArray, 8, 12, i)
  IN  IF header(0) = 66 /\ header(1) = 73 THEN "image/bmp"
      ELSE IF header(0) = 71 /\ header(1) = 73 THEN "image/gif"
      ELSE IF header(0) = 255 /\ header(1) = 216 THEN "image/jpeg"
      ELSE IF header(0) = 137 /\ header(1) = 80 THEN "image/png"
      ELSE IF header(0) = 171 /\ header(1) = 75 THEN "image/ktx"
      ELSE IF header(0) = 72 /\ header(1) = 120 THEN "image/crn"
      ELSE IF header(0) = 115 /\ header(1) = 66 THEN "image/basis"
      ELSE IF /\ webpHeaderRIFFChars(0) = 82 /\ webpHeaderRIFFChars(1) = 73
              /\ webpHeaderRIFFChars(2) = 70 /\ webpHeaderRIFFChars(3) = 70
              /\ webpHeaderWEBPChars(0) = 87 /\ webpHeaderWEBPChars(1) = 69
              /\ webpHeaderWEBPChars(2) = 66 /\ webpHeaderWEBPChars(3) = 80
           THEN "image/webp"
      ELSE "RuntimeError"

\* loadImageFromBufferTypedArray: the decode function called for the mime type.
loadImageFromBufferTypedArray(mimeType) ==
  IF mimeType = "image/ktx" THEN "loadKTX"
  ELSE IF mimeType = "image/crn" THEN "loadCRN"
  ELSE "loadImageFromTypedArray"

\* The .then handler on the buffer view's promise: the bytes are sniffed and
\* the decode starts; an invalid header throws.  The bytes of the image's
\* buffer view are the document's image bytes.
ImageBufferViewThen(st, id) ==
  IF st.loaders[id].state = "DESTROYED"
  THEN [ImageUnload(st, id) EXCEPT !.loaders[id].pc = "done",
                                   !.loaders[id].lateSuccess = TRUE]
  ELSE IF ~defined(st.loaders[value(st.loaders[id].dep)].result)
       THEN ImageHandleError(st, id)
       ELSE LET mimeType == getMimeTypeFromTypedArray(st.gltf.image)
                st1 == [st EXCEPT !.loaders[id].mimeType = <<mimeType>>]
            IN  IF mimeType = "RuntimeError"
                THEN ImageHandleError(st1, id)
                ELSE [st1 EXCEPT
                        !.loaders[id].decoder =
                          <<loadImageFromBufferTypedArray(mimeType)>>,
                        !.loaders[id].pc = "decode"]

\* The handler that receives the decoded (or fetched) image.
ImagePublish(st, id) ==
  IF st.loaders[id].state = "DESTROYED"
  THEN [ImageUnload(st, id) EXCEPT !.loaders[id].pc = "done",
                                   !.loaders[id].lateSuccess = TRUE]
  ELSE Resolve([ImageUnload(st, id) EXCEPT
                  !.loaders[id].result = <<"image">>,
                  !.loaders[id].state = "READY",
                  !.loaders[id].pc = "done"], id)

\* -------------------------------------------------------- GltfDracoLoader
\* unload: releases the buffer view, drops the source bytes and the decoded data.
DracoUnload(st, id) ==
  LET st1 == IF defined(st.loaders[id].child)
             THEN [CacheUnload(st, value(st.loaders[id].child))
                     EXCEPT !.loaders[id].refsHeld = @ - 1]
             ELSE st
  IN  [st1 EXCEPT !.loaders[id].child = undefined,
                  !.loaders[id].bufferViewTypedArray = undefined,
                  !.loaders[id].result = undefined]

DracoLoad(st, id) ==
  LET st0 == CacheLoad(st, BufferViewKey)
      st1 == [st0 EXCEPT !.loaders[id].refsHeld = @ + 1]
  IN  [st1 EXCEPT !.loaders[id].state = "LOADING",
                  !.loaders[id].child = <<st1.ret>>,
                  !.loaders[id].dep = <<st1.ret>>,
                  !.loaders[id].pc = "wait"]

DracoDestroy(st, id) ==
  LET st1 == DracoUnload(st, id)
  IN  [st1 EXCEPT !.loaders[id].state = "DESTROYED",
                  !.loaders[id].isDestroyed = TRUE]

\* handleError: unload, FAILED, reject.
DracoHandleError(st, id) ==
  LET st1 == Late(DracoUnload(st, id), id, "lateFailure")
  IN  Reject([st1 EXCEPT !.loaders[id].state = "FAILED",
                         !.loaders[id].pc = "done",
                         !.loaders[id].failedLive = ~st.loaders[id].isDestroyed], id)

\* The .then handler on the buffer view's promise: keeps the bytes for update().
DracoBufferViewThen(st, id) ==
  IF st.loaders[id].state = "DESTROYED"
  THEN [DracoUnload(st, id) EXCEPT !.loaders[id].pc = "done",
                                   !.loaders[id].lateSuccess = TRUE]
  ELSE [st EXCEPT !.loaders[id].bufferViewTypedArray =
                    st.loaders[value(st.loaders[id].dep)].result,
                  !.loaders[id].pc = "done"]

\* update() that assigns _decodePromise before it looks at the bytes.
DracoUpdateClaimsDecode(st, id) ==
  IF st.loaders[id].decodePromise
  THEN st
  ELSE [st EXCEPT !.loaders[id].decodePromise = TRUE]

\* update() that looks at the buffer view loader in place of the bytes.
DracoUpdateBeforeBytes(st, id) ==
  IF ~defined(st.loaders[id].child)
  THEN st
  ELSE IF st.loaders[id].decodePromise
       THEN st
       ELSE [st EXCEPT !.loaders[id].decodePromise = TRUE,
                       !.loaders[id].decodes = @ + 1]

\* update() without the guard on the bytes.
DracoUpdateNoBytesGuard(st, id) ==
  IF st.loaders[id].decodePromise
  THEN st
  ELSE [st EXCEPT !.loaders[id].decodePromise = TRUE,
                  !.loaders[id].decodes = @ + 1]

\* update(frameState): starts the decode task once the bytes are there and no
\* decode is running.
DracoUpdate(st, id) ==
  IF ~defined(st.loaders[id].bufferViewTypedArray)
  THEN st
  ELSE IF st.loaders[id].decodePromise
       THEN st
       ELSE [st EXCEPT !.loaders[id].decodePromise = TRUE,
                       !.loaders[id].decodes = @ + 1]

\* What the decode task delivers: when.resolve() resolves with no value.
DecodedData == undefined

\* The decode handler that publishes without unloading.
DracoDecodeThenKeepBytes(st, id) ==
  IF st.loaders[id].state = "DESTROYED"
  THEN [DracoUnload(st, id) EXCEPT !.loaders[id].decodes = @ - 1,
                                   !.loaders[id].lateSuccess = TRUE]
  ELSE Resolve([st EXCEPT !.loaders[id].result = DecodedData,
                          !.loaders[id].state = "READY",
                          !.loaders[id].decodes = @ - 1], id)

DracoDecodeThenAndFail(st, id) ==
  IF st.loaders[id].state = "DESTROYED"
  THEN [DracoUnload(st, id) EXCEPT !.loaders[id].decodes = @ - 1,
                                   !.loaders[id].lateSuccess = TRUE]
  ELSE DracoHandleError(
         Resolve([DracoUnload(st, id) EXCEPT
                    !.loaders[id].result = DecodedData,
                    !.loaders[id].state = "READY",
                    !.loaders[id].decodes = @ - 1], id), id)

\* The .then handler on the decode promise.
DracoDecodeThen(st, id) ==
  IF st.loaders[id].state = "DESTROYED"
  THEN [DracoUnload(st, id) EXCEPT !.loaders[id].decodes = @ - 1,
                                   !.loaders[id].lateSuccess = TRUE]
  ELSE Resolve([DracoUnload(st, id) EXCEPT
                  !.loaders[id].result = DecodedData,
                  !.loaders[id].state = "READY",
                  !.loaders[id].decodes = @ - 1], id)

\* --------------------------------------------------------- GltfJsonLoader
UnloadEach(st, ids) ==
  IF ids = <<>> THEN st ELSE UnloadEach(CacheUnload(st, Head(ids)), Tail(ids))

\* unload: releases every buffer loader of _bufferLoaders and drops the glTF.
\* The list itself stays as it is: the code assigns [] to _bufferLoader.
JsonUnload(st, id) ==
  LET ids == st.loaders[id].bufferLoaders
  IN  [UnloadEach(st, ids) EXCEPT !.loaders[id].refsHeld = @ - Len(ids),
                                  !.loaders[id].result = undefined]

JsonLoad(st, id) ==
  [st EXCEPT !.loaders[id].state = "LOADING", !.loaders[id].pc = "fetch"]

JsonDestroy(st, id) ==
  LET st1 == JsonUnload(st, id)
  IN  [st1 EXCEPT !.loaders[id].state = "DESTROYED",
                  !.loaders[id].isDestroyed = TRUE]

\* destroy() ends with destroyObject(this), which replaces every property of
\* the loader that holds a function by a function that throws.  The
\* constructor requires _resourceCache to be a function, so a call of
\* _resourceCache.unload or _resourceCache.loadEmbeddedBuffer through a
\* destroyed loader throws a TypeError.
resourceCacheThrows(st, id) == st.loaders[id].isDestroyed

\* unload reaches _resourceCache.unload when _bufferLoaders is not empty.
JsonUnloadThrows(st, id) ==
  resourceCacheThrows(st, id) /\ st.loaders[id].bufferLoaders # <<>>

\* The handler of .otherwise: unload, FAILED, reject.  When unload throws,
\* the handler ends there.
JsonOtherwise(st, id) ==
  IF JsonUnloadThrows(st, id)
  THEN [st EXCEPT !.loaders[id].pc = "done", !.loaders[id].lateFailure = TRUE]
  ELSE LET st1 == Late(JsonUnload(st, id), id, "lateFailure")
       IN  Reject([st1 EXCEPT !.loaders[id].state = "FAILED",
                              !.loaders[id].pc = "done",
                              !.loaders[id].failedLive = ~st.loaders[id].isDestroyed], id)

JsonPublishUnchecked(st, id) ==
  Resolve([Late(st, id, "lateSuccess") EXCEPT
             !.loaders[id].result = <<"gltf">>,
             !.loaders[id].state = "READY",
             !.loaders[id].pc = "done"], id)

\* The second .then handler: publishes the glTF.  A throw of unload in its
\* DESTROYED branch is caught by .otherwise.
JsonPublish(st, id) ==
  IF st.loaders[id].state = "DESTROYED"
  THEN LET st1 == [st EXCEPT !.loaders[id].lateSuccess = TRUE]
       IN  IF JsonUnloadThrows(st1, id)
           THEN JsonOtherwise(st1, id)
           ELSE [JsonUnload(st1, id) EXCEPT !.loaders[id].pc = "done"]
  ELSE Resolve([st EXCEPT !.loaders[id].result = <<"gltf">>,
                          !.loaders[id].state = "READY",
                          !.loaders[id].pc = "done"], id)

\* A step of processGltf has finished.
Done(st, id, step) == [st EXCEPT !.loaders[id].steps = Append(@, step)]

\* The steps of processGltf, in order.
ProcessGltfSteps ==
  <<"decodeDataUris", "upgradeVersion", "addDefaults", "loadEmbeddedBuffers">>

\* loadEmbeddedBuffers, after addDefaults: a buffer with a source and no uri
\* (of a binary glTF, or decoded from a data uri) is requested from the cache
\* and waited for.
loadEmbeddedBuffers(st, id) ==
  IF st.gltf.hasEmbedded
  THEN IF resourceCacheThrows(st, id)
       THEN JsonOtherwise(st, id)
       ELSE LET st1 == CacheLoad(st, EmbeddedBufferKey)
            IN  [st1 EXCEPT !.loaders[id].bufferLoaders = Append(@, st1.ret),
                            !.loaders[id].refsHeld = @ + 1,
                            !.loaders[id].dep = <<st1.ret>>,
                            !.loaders[id].pc = "embedded"]
  ELSE JsonPublish(Done(st, id, "loadEmbeddedBuffers"), id)

\* The continuation of upgradeVersion once the external buffers are there:
\* updateVersion(gltf), which throws on a document it cannot upgrade
\* (upgradeOk false), then addDefaults and loadEmbeddedBuffers.
JsonUpgradeThen(st, id, upgradeOk) ==
  IF ~upgradeOk
  THEN JsonOtherwise(st, id)
  ELSE loadEmbeddedBuffers(
         Done(Done(st, id, "upgradeVersion"), id, "addDefaults"), id)

\* upgradeVersion that does not wait for the buffers it requested.
upgradeVersionNoWait(st, id) ==
  IF st.gltf.version = "2.0"
  THEN JsonUpgradeThen(st, id, TRUE)
  ELSE LET st1 == CacheLoad(st, BufferKey)
       IN  JsonUpgradeThen(
             [st1 EXCEPT !.loaders[id].bufferLoaders = Append(@, st1.ret),
                         !.loaders[id].refsHeld = @ + 1], id, TRUE)

\* upgradeVersion: a document older than 2.0 has its external buffers loaded
\* through the cache before updateVersion runs.
upgradeVersion(st, id) ==
  IF st.gltf.version = "2.0"
  THEN JsonUpgradeThen(st, id, TRUE)
  ELSE IF resourceCacheThrows(st, id)
       THEN JsonOtherwise(st, id)
       ELSE LET st1 == CacheLoad(st, BufferKey)
            IN  [st1 EXCEPT !.loaders[id].bufferLoaders = Append(@, st1.ret),
                            !.loaders[id].refsHeld = @ + 1,
                            !.loaders[id].dep = <<st1.ret>>,
                            !.loaders[id].pc = "upgrade"]

\* The continuation of decodeDataUris: upgradeVersion.  ok is whether every
\* data uri was fetched.
JsonDataUrisThen(st, id, ok) ==
  IF ~ok
  THEN JsonOtherwise(st, id)
  ELSE upgradeVersion(Done(st, id, "decodeDataUris"), id)

\* processGltf: the document is parsed, its data uris are fetched, then the
\* rest follows.
processGltf(st, id) ==
  IF st.gltf.hasDataUri
  THEN [st EXCEPT !.loaders[id].pc = "dataUri"]
  ELSE JsonDataUrisThen(st, id, TRUE)

\* The first .then handler, on the fetched bytes; parseOk is whether parseGlb
\* or getJsonFromTypedArray accepts them.  A destroyed loader unloads here
\* and again in the second handler.
JsonFetchThen(st, id, parseOk) ==
  IF st.loaders[id].state = "DESTROYED"
  THEN JsonPublish(JsonUnload(st, id), id)
  ELSE IF ~parseOk
       THEN JsonOtherwise(st, id)
       ELSE processGltf(st, id)

\* ----------------------- vertex buffer, index buffer and texture loaders
\* The loaders that end in a GPU resource are not among the sources; they
\* are modelled from section 4.4 of the specification.  Each depends on one
\* loader: the buffer view or the Draco loader of its geometry, or the image
\* of its texture.
GpuDependencyKey(key) ==
  CASE key \in {"vertexBuffer", "indexBuffer"} -> BufferViewKey
    [] key \in {"vertexBufferDraco", "indexBufferDraco"} -> DracoKey
    [] OTHER -> ImageUriKey

\* The GPU resource of a loader, named after its cache key.
GpuHandle(key) == <<"gpu", key>>

GpuUnload(st, id) ==
  IF defined(st.loaders[id].child)
  THEN [CacheUnload(st, value(st.loaders[id].child)) EXCEPT
          !.loaders[id].child = undefined,
          !.loaders[id].refsHeld = @ - 1]
  ELSE st

\* load(): request the dependency (st1 is the cache's answer) and wait for it.
GpuLoad(st, id) ==
  LET Requested(st1) ==
        [st1 EXCEPT !.loaders[id].child = <<st1.ret>>,
                    !.loaders[id].dep = <<st1.ret>>,
                    !.loaders[id].refsHeld = @ + 1,
                    !.loaders[id].state = "LOADING",
                    !.loaders[id].pc = "wait"]
  IN  Requested(CacheLoad(st, GpuDependencyKey(st.loaders[id].cacheKey)))

GpuDestroy(st, id) ==
  [GpuUnload(st, id) EXCEPT !.loaders[id].result = undefined,
                            !.loaders[id].state = "DESTROYED",
                            !.loaders[id].isDestroyed = TRUE]

\* The dependency is there: the GPU resource is created by update().
GpuDependencyThen(st, id) ==
  IF st.loaders[id].state = "DESTROYED"
  THEN [st EXCEPT !.loaders[id].pc = "done"]
  ELSE [st EXCEPT !.loaders[id].state = "PROCESSING",
                  !.loaders[id].pc = "processing"]

GpuHandleError(st, id) ==
  IF st.loaders[id].state = "DESTROYED"
  THEN [st EXCEPT !.loaders[id].pc = "done"]
  ELSE Reject([GpuUnload(st, id) EXCEPT !.loaders[id].state = "FAILED",
                                        !.loaders[id].pc = "done"], id)

\* update(): a Draco dependency is updated in turn; a PROCESSING loader
\* creates its GPU resource, releases the dependency and is READY.
GpuUpdate(st, id) ==
  IF st.loaders[id].state = "PROCESSING"
  THEN Resolve([GpuUnload(st, id) EXCEPT
                  !.loaders[id].result = <<GpuHandle(st.loaders[id].cacheKey)>>,
                  !.loaders[id].state = "READY",
                  !.loaders[id].pc = "done"], id)
  ELSE IF /\ st.loaders[id].state = "LOADING"
          /\ st.loaders[value(st.loaders[id].child)].kind = "draco"
       THEN DracoUpdate(st, value(st.loaders[id].child))
       ELSE st

\* ------------------------------------------------- GltfFeatureMetadataLoader
\* The schema loader of the cache, given an inline schema: resolves at once.
SchemaLoad(st, id) ==
  Resolve([st EXCEPT !.loaders[id].state = "READY",
                     !.loaders[id].result = <<"schema">>,
                     !.loaders[id].pc = "done"], id)

SchemaDestroy(st, id) ==
  [st EXCEPT !.loaders[id].result = undefined,
             !.loaders[id].state = "DESTROYED",
             !.loaders[id].isDestroyed = TRUE]

\* unload: releases every buffer view of _bufferViewCacheResources; the
\* dictionary and the schema loader stay as they are.
FeatureMetadataUnload(st, id) ==
  LET ids == st.loaders[id].bufferLoaders
  IN  [UnloadEach(st, ids) EXCEPT !.loaders[id].refsHeld = @ - Len(ids)]

\* GltfFeatureMetadataLoader.prototype.unload
FeatureMetadataPrototypeUnload(st, id) ==
  [FeatureMetadataUnload(st, id) EXCEPT !.loaders[id].state = "UNLOADED"]

\* load(): loadBufferViews requests the buffer view of the feature table,
\* loadSchema requests the schema; _state is not assigned.  The file does
\* not parse as it stands and loadFeatureTextures reads names it never
\* declares, so whether load() gets as far as registering its handlers on
\* when.all is an input (registers).
FeatureMetadataLoad(st, id, registers) ==
  LET st1 == CacheLoad(st, BufferViewKey)
      st2 == CacheLoad(st1, SchemaKey)
  IN  [st2 EXCEPT !.loaders[id].bufferLoaders = <<st1.ret>>,
                  !.loaders[id].child = <<st2.ret>>,
                  !.loaders[id].refsHeld = @ + 2,
                  !.loaders[id].pc = IF registers THEN "all" ELSE "done"]

\* The .then handler on when.all: a loader found UNLOADED is taken to have
\* been unloaded meanwhile.
FeatureMetadataThen(st, id) ==
  IF st.loaders[id].state = "UNLOADED"
  THEN [FeatureMetadataUnload(st, id) EXCEPT !.loaders[id].pc = "done",
                                             !.loaders[id].sawUnloaded = TRUE]
  ELSE Resolve([st EXCEPT !.loaders[id].result = <<"featureMetadata">>,
                          !.loaders[id].state = "READY",
                          !.loaders[id].pc = "done"], id)

\* The handler of .otherwise: unload, FAILED, reject.
FeatureMetadataOtherwise(st, id) ==
  Reject([FeatureMetadataUnload(st, id) EXCEPT
            !.loaders[id].state = "FAILED",
            !.loaders[id].pc = "done"], id)

\* ------------------------------------------------------------ dispatch
LoaderLoad(st, id) ==
  LET st1 == [st EXCEPT !.loaders[id].loadCalls = @ + 1]
      kind == st.loaders[id].kind
  IN  CASE kind = "buffer" -> BufferLoad(st1, id)
        [] kind = "bufferView" -> BufferViewLoad(st1, id)
        [] kind = "image" -> ImageLoad(st1, id)
        [] kind = "draco" -> DracoLoad(st1, id)
        [] kind = "gltf" -> JsonLoad(st1, id)
        [] kind = "schema" -> SchemaLoad(st1, id)
        [] kind \in {"vertexBuffer", "indexBuffer", "texture"} -> GpuLoad(st1, id)

LoaderDestroy(st, id) ==
  LET kind == st.loaders[id].kind
  IN  CASE kind = "buffer" -> BufferDestroy(st, id)
        [] kind = "bufferView" -> BufferViewDestroy(st, id)
        [] kind = "image" -> ImageDestroy(st, id)
        [] kind = "draco" -> DracoDestroy(st, id)
        [] kind = "gltf" -> JsonDestroy(st, id)
        [] kind = "schema" -> SchemaDestroy(st, id)
        [] kind \in {"vertexBuffer", "indexBuffer", "texture"} -> GpuDestroy(st, id)

\* ---------------------------------------------------------- ResourceCache
\* load<Kind>(options): an existing entry is returned with its count raised
\* and load() is not called again; else the loader is constructed,
\* registered with count 1 and load() is called once.
CacheLoad(st, key) ==
  IF key \in DOMAIN st.entries
  THEN [st EXCEPT !.entries[key].referenceCount = @ + 1,
                  !.loaders[st.entries[key].loader].cacheLoads = @ + 1,
                  !.ret = st.entries[key].loader]
  ELSE LET new == Len(st.loaders) + 1
           st1 == [st EXCEPT !.loaders = Append(@, [NewLoader(key) EXCEPT
                                                      !.cacheLoads = 1]),
                             !.entries = (key :> [loader |-> new, referenceCount |-> 1])
                                         @@ @]
       IN  [LoaderLoad(st1, new) EXCEPT !.ret = new]

CacheUnloadEager(st, id) ==
  LET key == st.loaders[id].cacheKey
      st9 == [st EXCEPT !.loaders[id].cacheUnloads = @ + 1]
  IN  IF ~Registered(st, id)
      THEN [st9 EXCEPT !.errors = @ + 1]
      ELSE LET st1 == LoaderDestroy(
                        [st9 EXCEPT !.entries[key].referenceCount = @ - 1], id)
           IN  [st1 EXCEPT !.entries = RemoveKey(@, key)]

CacheUnloadByKey(st, id) ==
  LET key == st.loaders[id].cacheKey
      st9 == [st EXCEPT !.loaders[id].cacheUnloads = @ + 1]
  IN  IF key \notin DOMAIN st.entries
      THEN [st9 EXCEPT !.errors = @ + 1]
      ELSE LET n == st.entries[key].referenceCount - 1
               st0 == [st9 EXCEPT !.entries[key].referenceCount = n]
           IN  IF n > 0 THEN st0
               ELSE [LoaderDestroy(st0, st.entries[key].loader)
                       EXCEPT !.entries = RemoveKey(@, key)]

\* unload(loader): a loader that is not registered is rejected; else the
\* count drops by one and at zero the loader is destroyed and the entry removed.
CacheUnload(st, id) ==
  LET key == st.loaders[id].cacheKey
      st9 == [st EXCEPT !.loaders[id].cacheUnloads = @ + 1]
  IN  IF ~Registered(st, id)
      THEN [st9 EXCEPT !.errors = @ + 1]
      ELSE LET n == st.entries[key].referenceCount - 1
               st0 == [st9 EXCEPT !.entries[key].referenceCount = n]
           IN  IF n > 0 THEN st0
               ELSE [LoaderDestroy(st0, id) EXCEPT !.entries = RemoveKey(@, key)]

\* ------------------------------------------------------------ GltfLoader
\* ModelComponents.js is not among the sources: a new component has every
\* optional field undefined and every list empty, as section 3 of the
\* specification describes the tree.  The texture slots of a material, in
\* the order updateNode visits them:
SlotOrder ==
  <<"baseColorTexture", "metallicRoughnessTexture", "diffuseTexture",
    "specularGlossinessTexture", "emissiveTexture", "normalTexture",
    "occlusionTexture">>

NewMaterial ==
  [slot \in {SlotOrder[i] : i \in 1..Len(SlotOrder)} \cup {"extensions"} |-> undefined]

NewPrimitive == [material |-> undefined, vertexAttributes |-> <<>>,
                 morphTargets |-> <<>>, indices |-> undefined,
                 featureIdAttributes |-> <<>>]

NewNode == [mesh |-> undefined, instances |-> undefined, extensions |-> undefined,
            children |-> <<>>]

\* The walk threads w = [st, requests, threw, out, ctx, jsonHeld]: the cache
\* and loaders, the cache requests issued so far, whether a TypeError has
\* ended the walk, the value the last call returned or the component under
\* construction, and for the requests' record which part of a primitive is
\* being loaded and whether the GltfLoader still held its glTF JSON loader.
\* The call of ResourceCache.load<Kind> and what it returned (st1).
CacheRequest(w, fn, key, draco) ==
  LET Requested(st1) ==
        [w EXCEPT !.st = st1, !.out = <<st1.ret>>,
                  !.requests = Append(@, [fn |-> fn, key |-> key, draco |-> draco,
                                          for |-> w.ctx, jsonHeld |-> w.jsonHeld])]
  IN  Requested(CacheLoad(w.st, key))

\* Assignments of what a call returned (w1.out) to a field, to an optional
\* field and to the end of a list.
Put(w1, record, field) == [w1 EXCEPT !.out = [record EXCEPT ![field] = w1.out]]
PutSome(w1, record, field) == [w1 EXCEPT !.out = [record EXCEPT ![field] = <<w1.out>>]]
Push(w1, list) == [w1 EXCEPT !.out = Append(list, w1.out)]

\* loadVertexBuffer: no request without a buffer view and without Draco.
loadVertexBuffer(w, accessor, semantic, draco) ==
  IF ~defined(draco) /\ ~defined(accessor.bufferView)
  THEN [w EXCEPT !.out = undefined]
  ELSE CacheRequest(w, "loadVertexBuffer",
                    IF defined(draco) THEN "vertexBufferDraco" ELSE "vertexBuffer",
                    draco)

\* loadVertexAttribute: after loadVertexBuffer has returned (w1.out),
\* bufferView.byteStride is read from gltf.bufferViews[accessor.bufferView],
\* which is undefined for an accessor without a buffer view.
loadVertexAttribute(w, accessor, semantic, draco) ==
  LET VertexAttribute(w1) ==
        IF ~defined(accessor.bufferView)
        THEN [w1 EXCEPT !.threw = TRUE]
        ELSE [w1 EXCEPT !.out = [semantic |-> semantic,
                                 constantValue |-> IF defined(w1.out) THEN undefined
                                                   ELSE <<0>>,
                                 cacheResource |-> w1.out,
                                 vertexBuffer |-> undefined]]
  IN  VertexAttribute(loadVertexBuffer(w, accessor, semantic, draco))

loadIndexBuffer(w, accessor, draco) ==
  IF ~defined(draco) /\ ~defined(accessor.bufferView)
  THEN [w EXCEPT !.out = undefined]
  ELSE CacheRequest(w, "loadIndexBuffer",
                    IF defined(draco) THEN "indexBufferDraco" ELSE "indexBuffer",
                    draco)

\* loadIndices, w1.out being what loadIndexBuffer returned.
loadIndices(w, accessor, draco) ==
  LET Indices(w1) ==
        [w1 EXCEPT !.out = [constantValue |-> IF defined(w1.out) THEN undefined
                                              ELSE <<0>>,
                            cacheResource |-> w1.out,
                            indexBuffer |-> undefined]]
  IN  Indices(loadIndexBuffer(w, accessor, draco))

\* loadTexture: textureInfo is the index of the texture.
loadTexture(w, textureInfo) ==
  LET Texture(w1) == [w1 EXCEPT !.out = [cacheResource |-> w1.out, texture |-> undefined]]
  IN  Texture(CacheRequest(w, "loadTexture", TextureKeys[textureInfo], undefined))

\* loadMaterial, v.out being the runtime material.  LoadSlot is one texture
\* slot: textureInfo is what the code tests and passes on, slot the field it
\* assigns.  The two metallic-roughness textures are read from the glTF
\* material; the specular-glossiness extension (ExtensionSlot) and the
\* emissive, normal and occlusion textures (OwnSlot) are read from the new
\* runtime material.
loadMaterial(w, gltfMaterial) ==
  LET LoadSlot(v, textureInfo, slot) ==
        IF v.threw \/ ~defined(textureInfo)
        THEN v
        ELSE PutSome(loadTexture([v EXCEPT !.ctx = slot], value(textureInfo)),
                     v.out, slot)
      ExtensionSlot(v, slot) ==
        IF defined(v.out.extensions)
        THEN LoadSlot(v, value(v.out.extensions)[slot], slot)
        ELSE v
      OwnSlot(v, slot) == LoadSlot(v, v.out[slot], slot)
  IN  OwnSlot(OwnSlot(OwnSlot(
        ExtensionSlot(ExtensionSlot(
          LoadSlot(LoadSlot([w EXCEPT !.out = NewMaterial],
                            gltfMaterial.baseColorTexture, "baseColorTexture"),
                   gltfMaterial.metallicRoughnessTexture, "metallicRoughnessTexture"),
          "diffuseTexture"), "specularGlossinessTexture"),
        "emissiveTexture"), "normalTexture"), "occlusionTexture")

RECURSIVE loadVertexAttributes(_, _, _, _)
\* The loop over the attributes of a primitive, a morph target or instances;
\* w.out is the list so far, the i-th attribute has the i-th semantic.
loadVertexAttributes(w, accessors, draco, i) ==
  IF w.threw \/ i > Len(accessors)
  THEN w
  ELSE loadVertexAttributes(
         Push(loadVertexAttribute(w, accessors[i], <<"POSITION", "NORMAL">>[i], draco),
              w.out),
         accessors, draco, i + 1)

\* loadMorphTarget that passes a Draco extension on.
loadMorphTargetWithDraco(w, gltfTarget) ==
  Put(loadVertexAttributes([w EXCEPT !.ctx = "morphTarget", !.out = <<>>],
                           gltfTarget, <<"KHR_draco_mesh_compression">>, 1),
      [vertexAttributes |-> <<>>], "vertexAttributes")

\* loadMorphTarget: the Draco extension is not passed on.
loadMorphTarget(w, gltfTarget) ==
  Put(loadVertexAttributes([w EXCEPT !.ctx = "morphTarget", !.out = <<>>],
                           gltfTarget, undefined, 1),
      [vertexAttributes |-> <<>>], "vertexAttributes")

\* loadPrimitive, v.out being the primitive so far: the material, the
\* attributes with the primitive's Draco extension, the morph targets, and
\* the indices with the primitive's Draco extension, and the feature-ID
\* attributes of the primitive's feature metadata extension.  The bound of
\* that loop, featureIdAttributesLength, is initialized from itself and so
\* is undefined, and i < undefined is false; loadFeatureIdAttribute has no
\* return statement, so what would be pushed is undefined.
loadPrimitive(w, gltfPrimitive) ==
  LET featureIdAttributesLength == undefined
      RECURSIVE FeatureIds(_, _)
      FeatureIds(v, i) ==
        IF ~defined(featureIdAttributesLength) \/ i > value(featureIdAttributesLength)
        THEN v
        ELSE FeatureIds([v EXCEPT !.out.featureIdAttributes = Append(@, undefined)],
                        i + 1)
      FeatureIdAttributes(v) ==
        IF /\ ~v.threw
           /\ defined(gltfPrimitive.featureMetadata)
           /\ defined(value(gltfPrimitive.featureMetadata).featureIdAttributes)
        THEN FeatureIds(v, 1)
        ELSE v
      RECURSIVE Targets(_, _)
      Targets(v, i) ==
        IF v.threw \/ i > Len(gltfPrimitive.targets)
        THEN v
        ELSE Targets(Push(loadMorphTarget(v, gltfPrimitive.targets[i]), v.out), i + 1)
      Material(v) ==
        IF defined(gltfPrimitive.material)
        THEN PutSome(loadMaterial(v, value(gltfPrimitive.material)), v.out, "material")
        ELSE v
      Attributes(v) ==
        Put(loadVertexAttributes([v EXCEPT !.ctx = "attribute", !.out = <<>>],
                                 gltfPrimitive.attributes, gltfPrimitive.draco, 1),
            v.out, "vertexAttributes")
      MorphTargets(v) == Put(Targets([v EXCEPT !.out = <<>>], 1), v.out, "morphTargets")
      Indices(v) ==
        IF ~v.threw /\ defined(gltfPrimitive.indices)
        THEN PutSome(loadIndices([v EXCEPT !.ctx = "indices"],
                                 value(gltfPrimitive.indices), gltfPrimitive.draco),
                     v.out, "indices")
        ELSE v
  IN  FeatureIdAttributes(
        Indices(MorphTargets(Attributes(Material([w EXCEPT !.out = NewPrimitive])))))

\* loadMesh: the loop over the primitives of the mesh.
loadMesh(w, gltfMesh) ==
  LET RECURSIVE Primitives(_, _)
      Primitives(v, i) ==
        IF v.threw \/ i > Len(gltfMesh)
        THEN v
        ELSE Primitives(Push(loadPrimitive(v, gltfMesh[i]), v.out), i + 1)
  IN  Put(Primitives([w EXCEPT !.out = <<>>], 1), [primitives |-> <<>>], "primitives")

\* loadInstances: the attributes of the instancing extension.
loadInstances(w, instancingExtension) ==
  Put(loadVertexAttributes([w EXCEPT !.ctx = "instances", !.out = <<>>],
                           instancingExtension, undefined, 1),
      [vertexAttributes |-> <<>>], "vertexAttributes")

\* loadNode, v.out being the node so far: the mesh, and the instancing
\* extension, which is looked up on the new runtime node and not on
\* gltfNode.
loadNode(w, gltfNode) ==
  LET Mesh(v) ==
        IF defined(gltfNode.mesh)
        THEN PutSome(loadMesh(v, value(gltfNode.mesh)), v.out, "mesh")
        ELSE v
      Instances(v) ==
        IF ~v.threw /\ defined(v.out.extensions)
        THEN PutSome(loadInstances(v, value(v.out.extensions)), v.out, "instances")
        ELSE v
  IN  Instances(Mesh([w EXCEPT !.out = NewNode]))

RECURSIVE loadNodes(_, _, _)
\* loadNodes: w.out is the array, which parse starts as new Array(length)
\* with length empty slots; push appends after them.  The nodes of the
\* documents have no children.
loadNodes(w, gltfNodes, i) ==
  LET PushNode(w1) == [w1 EXCEPT !.out = Append(w.out, <<w1.out>>)]
  IN  IF w.threw \/ i > Len(gltfNodes)
      THEN w
      ELSE loadNodes(PushNode(loadNode(w, gltfNodes[i])), gltfNodes, i + 1)

\* parse: model.nodes is assigned what loadNodes returned (w1.out); then,
\* for a document with the feature metadata extension, MetadataGltfExtension
\* is constructed without options.extension and throws.
parse(w, gltfScene) ==
  LET Parsed(w1) ==
        IF w1.threw
        THEN [w1 EXCEPT !.out = undefined]
        ELSE [w1 EXCEPT !.out = <<w1.out>>, !.threw = gltfScene.featureMetadata]
  IN  Parsed(loadNodes([w EXCEPT !.out = [i \in 1..Len(gltfScene.nodes) |-> undefined]],
                       gltfScene.nodes, 1))

\* unload(loader): the glTF JSON loader is released if it is still held.
\* x = [st, gl, m]: the cache and loaders, the GltfLoader, the model.
GltfLoaderUnload(x) ==
  [x EXCEPT !.st = IF defined(x.gl.gltfCacheResource)
                   THEN CacheUnload(x.st, value(x.gl.gltfCacheResource))
                   ELSE x.st,
            !.gl.gltfCacheResource = undefined]

\* GltfLoader.prototype.load: the glTF JSON loader is requested (st1 is the
\* cache's answer).
GltfLoaderLoad(x) ==
  LET Requested(st1) ==
        [x EXCEPT !.st = st1,
                  !.gl.gltfCacheResource = <<st1.ret>>,
                  !.gl.dep = <<st1.ret>>,
                  !.gl.pc = "wait"]
  IN  Requested(CacheLoad(x.st, GltfKey))

\* The handler that does not test isDestroyed.
GltfLoaderThenWithoutTest(x, gltfScene) ==
  LET Walk(y) ==
        [st |-> y.st, requests |-> y.m.requests, threw |-> FALSE, out |-> undefined,
         ctx |-> "", jsonHeld |-> defined(y.gl.gltfCacheResource)]
      Walked(y, w) ==
        [y EXCEPT !.st = w.st,
                  !.gl.pc = "done",
                  !.m.nodes = IF defined(w.out) THEN w.out ELSE @,
                  !.m.requests = w.requests,
                  !.m.parsed = TRUE,
                  !.m.parseThrew = w.threw]
      Parse(y) == Walked(y, parse(Walk(y), gltfScene))
  IN  Parse(GltfLoaderUnload(x))

\* The handler on the glTF JSON loader's promise: a destroyed GltfLoader
\* unloads and returns; else the document is taken, the glTF JSON loader is
\* unloaded and then the document is parsed into the model.  Walk is the
\* walk as parse starts it, Walked what the walk leaves in the model.
GltfLoaderThen(x, gltfScene) ==
  LET Walk(y) ==
        [st |-> y.st, requests |-> y.m.requests, threw |-> FALSE, out |-> undefined,
         ctx |-> "", jsonHeld |-> defined(y.gl.gltfCacheResource)]
      Walked(y, w) ==
        [y EXCEPT !.st = w.st,
                  !.gl.pc = "done",
                  !.m.nodes = IF defined(w.out) THEN w.out ELSE @,
                  !.m.requests = w.requests,
                  !.m.parsed = TRUE,
                  !.m.parseThrew = w.threw]
      Parse(y) == Walked(y, parse(Walk(y), gltfScene))
  IN  IF x.gl.isDestroyed
      THEN [GltfLoaderUnload(x) EXCEPT !.gl.pc = "done"]
      ELSE Parse(GltfLoaderUnload(x))

\* GltfLoader.prototype.destroy
GltfLoaderDestroy(x) ==
  [GltfLoaderUnload(x) EXCEPT !.gl.isDestroyed = TRUE]

\* ---------------------------------------------------------- ModelRuntime
\* The update threads u = [st, threw, ready, out]: a TypeError makes every
\* later step a no-op, ready is the conjunction so far, out the component
\* as the last call left it or the component being updated.
\* updateVertexAttribute, updateIndices, updateTexture: update() on the
\* cache resource, which a component with a constant value does not have;
\* then the handle of the cache resource is copied to the component (st1 is
\* the state after update() on the cache resource).
updateComponent(u, component, handle) ==
  LET HandleCopied(st1) ==
        [u EXCEPT !.st = st1,
                  !.out = [component EXCEPT ![handle] =
                             st1.loaders[value(component.cacheResource)].result],
                  !.ready = defined(st1.loaders[value(component.cacheResource)].result)
                            /\ @]
  IN  IF u.threw
      THEN [u EXCEPT !.out = component]
      ELSE IF ~defined(component.cacheResource)
           THEN [u EXCEPT !.out = component, !.threw = TRUE]
           ELSE HandleCopied(GpuUpdate(u.st, value(component.cacheResource)))

\* updateNode on one element of the nodes array: node.mesh of an empty slot
\* is a TypeError.  For each primitive of the mesh (v.out being the
\* primitive): its attributes, the attributes of its morph targets, its
\* indices and the textures of its material; then the instances of the
\* node, where the length of instances.instanceAttributes, which
\* loadInstances does not fill, is a TypeError.  The nodes have no children.
updateNode(u, element) ==
  LET RECURSIVE VertexAttributes(_, _, _)
      RECURSIVE MorphTargets(_, _, _)
      RECURSIVE Textures(_, _)
      RECURSIVE Primitives(_, _, _)
      updateVertexAttribute(v, attribute) == updateComponent(v, attribute, "vertexBuffer")
      updateIndices(v, indices) == updateComponent(v, indices, "indexBuffer")
      updateTexture(v, texture) == updateComponent(v, texture, "texture")
      VertexAttributes(v, list, i) ==
        IF i > Len(list)
        THEN v
        ELSE VertexAttributes(Push(updateVertexAttribute(v, list[i]), v.out), list, i + 1)
      MorphTarget(v, morphTarget) ==
        Put(VertexAttributes([v EXCEPT !.out = <<>>], morphTarget.vertexAttributes, 1),
            morphTarget, "vertexAttributes")
      MorphTargets(v, list, i) ==
        IF i > Len(list)
        THEN v
        ELSE MorphTargets(Push(MorphTarget(v, list[i]), v.out), list, i + 1)
      Textures(v, i) ==
        IF i > Len(SlotOrder)
        THEN v
        ELSE IF defined(v.out[SlotOrder[i]])
             THEN Textures(PutSome(updateTexture(v, value(v.out[SlotOrder[i]])),
                                   v.out, SlotOrder[i]),
                           i + 1)
             ELSE Textures(v, i + 1)
      PrimitiveAttributes(v) ==
        Put(VertexAttributes([v EXCEPT !.out = <<>>], v.out.vertexAttributes, 1),
            v.out, "vertexAttributes")
      PrimitiveTargets(v) ==
        Put(MorphTargets([v EXCEPT !.out = <<>>], v.out.morphTargets, 1),
            v.out, "morphTargets")
      PrimitiveIndices(v) ==
        IF defined(v.out.indices)
        THEN PutSome(updateIndices(v, value(v.out.indices)), v.out, "indices")
        ELSE v
      PrimitiveMaterial(v) ==
        IF defined(v.out.material)
        THEN PutSome(Textures([v EXCEPT !.out = value(v.out.material)], 1),
                     v.out, "material")
        ELSE v
      Primitive(v, primitive) ==
        PrimitiveMaterial(PrimitiveIndices(PrimitiveTargets(
          PrimitiveAttributes([v EXCEPT !.out = primitive]))))
      Primitives(v, list, i) ==
        IF i > Len(list)
        THEN v
        ELSE Primitives(Push(Primitive(v, list[i]), v.out), list, i + 1)
      Mesh(v) ==
        IF defined(v.out.mesh)
        THEN PutSome(Put(Primitives([v EXCEPT !.out = <<>>],
                                    value(v.out.mesh).primitives, 1),
                         value(v.out.mesh), "primitives"),
                     v.out, "mesh")
        ELSE v
      Instances(v) == [v EXCEPT !.threw = @ \/ defined(v.out.instances)]
      Element(v) == [v EXCEPT !.out = <<v.out>>]
  IN  IF u.threw
      THEN [u EXCEPT !.out = element]
      ELSE IF ~defined(element)
           THEN [u EXCEPT !.out = element, !.threw = TRUE]
           ELSE Element(Instances(Mesh([u EXCEPT !.out = value(element)])))

\* ModelRuntime.prototype.update: the length of nodes that were never
\* assigned is a TypeError; else updateNode on every element of the array.
\* Updated is what update() leaves in the model and returns;
\* model.featureMetadata is never assigned.
ModelRuntimeUpdate(x) ==
  LET RECURSIVE Nodes(_, _, _)
      Nodes(u, list, i) ==
        IF i > Len(list)
        THEN u
        ELSE Nodes(Push(updateNode(u, list[i]), u.out), list, i + 1)
      Updated(u) ==
        [x EXCEPT !.st = u.st,
                  !.m.nodes = <<u.out>>,
                  !.m.updateThrew = @ \/ u.threw,
                  !.m.ready = IF u.threw THEN @ ELSE <<u.ready>>]
  IN  IF ~defined(x.m.nodes)
      THEN [x EXCEPT !.m.updateThrew = TRUE]
      ELSE Updated(Nodes([st |-> x.st, threw |-> FALSE, ready |-> TRUE, out |-> <<>>],
                         value(x.m.nodes), 1))

\* ------------------------------------------------------------- the state
St == [entries |-> cacheEntries, loaders |-> loaders, errors |-> errors,
       gltf |-> gltf, ret |-> 0]

Ids == 1..Len(loaders)

\* The loaders MaxLoaders counts: all but feature metadata loaders and the
\* schema loader.
Counted(ls) ==
  {i \in 1..Len(ls) : ls[i].kind \notin {"featureMetadata", "schema"}}

\* MaxLoaders bounds the loaders the owners outside the pipeline ask for; the
\* walk of a GltfLoader is bounded by its document.
Commit(st) ==
  /\ gltfLoader.pc = "new" => Cardinality(Counted(st.loaders)) <= MaxLoaders
  /\ cacheEntries' = st.entries
  /\ loaders' = st.loaders
  /\ errors' = st.errors

\* The typed arrays a buffer can hold: an external buffer starts at byte 0 of
\* its ArrayBuffer, a buffer embedded in a binary glTF does not.
BufferTypedArrays == {Uint8Array(0, 3), Uint8Array(1, 3), Uint8Array(1, 2)}

\* A 12-byte array that starts with b0, b1.
Header(b0, b1) == <<b0, b1, 0, 0, 0, 0, 0, 0, 0, 0, 0, 0>>

Png == Header(137, 80)

\* The bytes an embedded image can have: every signature, the WebP pair
\* whole and in part, near misses, and arrays too short to hold a header.
ImageTypedArrays ==
  { Header(66, 73), Header(71, 73), Header(255, 216), Png,
    Header(171, 75), Header(72, 120), Header(115, 66),
    <<82, 73, 70, 70, 0, 0, 0, 0, 87, 69, 66, 80>>,
    <<82, 73, 70, 70, 0, 0, 0, 0, 87, 65, 86, 69>>,
    <<0, 0, 0, 0, 0, 0, 0, 0, 87, 69, 66, 80>>,
    <<82, 73, 70, 70, 87, 69, 66, 80>>,
    Header(0, 0), Header(80, 137), Header(66, 80), Header(137, 0),
    <<137, 80>>, <<137>>, <<>> }

\* The documents: one buffer view of the one external buffer, the
\* document's version, whether it embeds a buffer, whether that buffer is
\* given as a data uri, and the bytes of its embedded image.
Documents ==
  [byteOffset : 0..2, byteLength : 0..2, buffer : BufferTypedArrays,
   embedded : {Uint8Array(2, 2)}, version : {"1.0", "2.0"}, hasEmbedded : BOOLEAN,
   hasDataUri : BOOLEAN, image : ImageTypedArrays]

InitCache ==
  /\ cacheEntries = <<>>
  /\ loaders = <<>>
  /\ clientRefs = [id \in 1..MaxLoaders + MaxClientLoads + 2 |-> 0]
  /\ clientLoads = 0
  /\ staleUnloads = 0
  /\ errors = 0
  /\ gltfLoader = [gltfCacheResource |-> undefined, dep |-> undefined,
                   isDestroyed |-> FALSE, pc |-> "new"]
  /\ model = [nodes |-> undefined, requests |-> <<>>, parsed |-> FALSE,
              parseThrew |-> FALSE, updated |-> FALSE, updateThrew |-> FALSE,
              ready |-> undefined, state |-> "UNLOADED", threw |-> FALSE]

Init ==
  /\ InitCache
  /\ scene = [nodes |-> <<>>, featureMetadata |-> FALSE]
  /\ extension = [featureTables |-> undefined, requests |-> <<>>, pc |-> "new"]
  /\ subdivision = [subdivisionScheme |-> "QUADTREE", debug |-> TRUE,
                    result |-> undefined, threw |-> FALSE, pc |-> "new"]
  /\ gltf \in {d \in Documents : /\ d.byteOffset = 1 /\ d.byteLength = 2
                                 /\ d.buffer = Uint8Array(1, 3)
                                 /\ d.hasEmbedded = (d.version = "2.0")
                                 /\ d.hasDataUri = d.hasEmbedded
                                 /\ d.image = IF d.version = "2.0" THEN Png
                                              ELSE Header(0, 0)}

\* -------------------------------------------------------------- actions
Rest ==
  UNCHANGED <<clientRefs, clientLoads, staleUnloads, gltf, scene, extension,
              subdivision, gltfLoader, model>>

DepPromise(id) == loaders[value(loaders[id].dep)].promise

\* A handler of this loader is due: the promise it waits for has settled
\* (the decode promise of update() is settled from the start).
\* The promises a feature metadata loader's when.all waits for.
AllPromises(id) ==
  {loaders[d].promise : d \in {value(loaders[id].child)} \cup
                               {loaders[id].bufferLoaders[i] :
                                  i \in 1..Len(loaders[id].bufferLoaders)}}

HandlerDue(id) ==
  \/ loaders[id].pc \in {"wait", "upgrade", "embedded"} /\ DepPromise(id) # "pending"
  \/ loaders[id].decodes > 0
  \/ loaders[id].pc = "all" /\ (AllPromises(id) = {"resolved"} \/ "rejected" \in AllPromises(id))

\* No handler is due, the GltfLoader's (on the glTF JSON loader's promise,
\* once it resolved) included.
Quiescent ==
  /\ \A id \in Ids : ~HandlerDue(id)
  /\ ~(gltfLoader.pc = "wait" /\ loaders[value(gltfLoader.dep)].promise = "resolved")

\* An owner outside the pipeline calls ResourceCache.load<Kind>.
ClientLoad(key) ==
  /\ Quiescent
  /\ clientLoads < MaxClientLoads
  /\ LET st == CacheLoad(St, key)
     IN  /\ Commit(st)
         /\ clientRefs' = [clientRefs EXCEPT ![st.ret] = @ + 1]
  /\ clientLoads' = clientLoads + 1
  /\ UNCHANGED <<staleUnloads, gltf, scene, extension, subdivision, gltfLoader, model>>

\* An owner releases a reference it holds.
ClientUnload(id) ==
  /\ Quiescent
  /\ loaders[id].kind # "featureMetadata"
  /\ clientRefs[id] > 0
  /\ Commit(CacheUnload(St, id))
  /\ clientRefs' = [clientRefs EXCEPT ![id] = @ - 1]
  /\ UNCHANGED <<clientLoads, staleUnloads, gltf, scene, extension, subdivision, gltfLoader, model>>

\* An owner calls unload on a loader that is not registered (any more).
ClientUnloadStale(id) ==
  /\ Quiescent
  /\ staleUnloads < MaxStaleUnloads
  /\ ~Registered(St, id)
  /\ Commit(CacheUnload(St, id))
  /\ staleUnloads' = staleUnloads + 1
  /\ UNCHANGED <<clientRefs, clientLoads, gltf, scene, extension, subdivision, gltfLoader, model>>


\* The fetch of an external buffer completes.
BufferFetchSucceeds(id) ==
  /\ Quiescent
  /\ loaders[id].kind = "buffer" /\ loaders[id].pc = "fetch"
  /\ Commit(BufferFetchThen(St, id)) /\ Rest

BufferFetchFails(id) ==
  /\ Quiescent
  /\ loaders[id].kind = "buffer" /\ loaders[id].pc = "fetch"
  /\ Commit(BufferFetchOtherwise(St, id)) /\ Rest

\* The buffer loader's promise settled: the buffer view's handler runs.
BufferViewResolved(id) ==
  /\ loaders[id].kind = "bufferView" /\ loaders[id].pc = "wait"
  /\ DepPromise(id) = "resolved"
  /\ Commit(BufferViewThen(St, id)) /\ Rest

BufferViewRejected(id) ==
  /\ loaders[id].kind = "bufferView" /\ loaders[id].pc = "wait"
  /\ DepPromise(id) = "rejected"
  /\ Commit(BufferViewOtherwise(St, id)) /\ Rest

\* The buffer view's promise settled: the image loader's handler runs.
ImageBufferViewResolved(id) ==
  /\ loaders[id].kind = "image" /\ loaders[id].pc = "wait"
  /\ DepPromise(id) = "resolved"
  /\ Commit(ImageBufferViewThen(St, id)) /\ Rest

ImageBufferViewRejected(id) ==
  /\ loaders[id].kind = "image" /\ loaders[id].pc = "wait"
  /\ DepPromise(id) = "rejected"
  /\ Commit(ImageHandleError(St, id)) /\ Rest

\* The image decode, or the fetch of the image's uri, completes.
ImageArrives(id) ==
  /\ Quiescent
  /\ loaders[id].kind = "image" /\ loaders[id].pc \in {"decode", "fetch"}
  /\ Commit(ImagePublish(St, id)) /\ Rest

ImageFails(id) ==
  /\ Quiescent
  /\ loaders[id].kind = "image" /\ loaders[id].pc \in {"decode", "fetch"}
  /\ Commit(ImageHandleError(St, id)) /\ Rest

\* The buffer view's promise settled: the Draco loader's handler runs.
DracoBufferViewResolved(id) ==
  /\ loaders[id].kind = "draco" /\ loaders[id].pc = "wait"
  /\ DepPromise(id) = "resolved"
  /\ Commit(DracoBufferViewThen(St, id)) /\ Rest

DracoBufferViewRejected(id) ==
  /\ loaders[id].kind = "draco" /\ loaders[id].pc = "wait"
  /\ DepPromise(id) = "rejected"
  /\ Commit(DracoHandleError(St, id)) /\ Rest

\* The owner of a Draco loader calls update(frameState); a destroyed loader's
\* update throws and changes nothing.
DracoUpdates(id) ==
  /\ Quiescent
  /\ loaders[id].kind = "draco" /\ ~loaders[id].isDestroyed
  /\ Commit([DracoUpdate(St, id) EXCEPT
               !.loaders[id].updatedIn = <<loaders[id].state>>]) /\ Rest

\* The decode promise resolved.
DracoDecodeResolved(id) ==
  /\ loaders[id].kind = "draco" /\ loaders[id].decodes > 0
  /\ Commit(DracoDecodeThen(St, id)) /\ Rest

\* The fetch of the glTF completes.
JsonFetchSucceeds(id, parseOk) ==
  /\ Quiescent
  /\ loaders[id].kind = "gltf" /\ loaders[id].pc = "fetch"
  /\ Commit(JsonFetchThen(St, id, parseOk)) /\ Rest

JsonFetchFails(id) ==
  /\ Quiescent
  /\ loaders[id].kind = "gltf" /\ loaders[id].pc = "fetch"
  /\ Commit(JsonOtherwise(St, id)) /\ Rest

\* The fetches of the document's data uris settle.
JsonDataUrisSettled(id, ok) ==
  /\ Quiescent
  /\ loaders[id].kind = "gltf" /\ loaders[id].pc = "dataUri"
  /\ Commit(JsonDataUrisThen(St, id, ok)) /\ Rest

\* The external buffers of upgradeVersion settled: updateVersion, addDefaults
\* and loadEmbeddedBuffers run.
JsonUpgradeResolved(id, upgradeOk) ==
  /\ loaders[id].kind = "gltf" /\ loaders[id].pc = "upgrade"
  /\ DepPromise(id) = "resolved"
  /\ Commit(JsonUpgradeThen(St, id, upgradeOk)) /\ Rest

\* The embedded buffers settled: the second .then handler runs.
JsonEmbeddedResolved(id) ==
  /\ loaders[id].kind = "gltf" /\ loaders[id].pc = "embedded"
  /\ DepPromise(id) = "resolved"
  /\ Commit(JsonPublish(Done(St, id, "loadEmbeddedBuffers"), id)) /\ Rest

JsonBuffersRejected(id) ==
  /\ loaders[id].kind = "gltf" /\ loaders[id].pc \in {"upgrade", "embedded"}
  /\ DepPromise(id) = "rejected"
  /\ Commit(JsonOtherwise(St, id)) /\ Rest

\* An owner constructs a feature metadata loader and calls load().
OwnerLoadsFeatureMetadata(registers) ==
  /\ Quiescent
  /\ clientLoads < MaxClientLoads
  /\ LET new == Len(loaders) + 1
         st0 == [St EXCEPT !.loaders = Append(@, [NewLoader(FeatureMetadataKey)
                                                    EXCEPT !.loadCalls = 1])]
     IN  /\ Commit(FeatureMetadataLoad(st0, new, registers))
         /\ clientRefs' = [clientRefs EXCEPT ![new] = 1]
  /\ clientLoads' = clientLoads + 1
  /\ UNCHANGED <<staleUnloads, gltf, scene, extension, subdivision, gltfLoader, model>>

\* The owner calls unload() on its feature metadata loader.
OwnerUnloadsFeatureMetadata(id) ==
  /\ Quiescent
  /\ loaders[id].kind = "featureMetadata" /\ clientRefs[id] > 0
  /\ Commit(FeatureMetadataPrototypeUnload(St, id))
  /\ clientRefs' = [clientRefs EXCEPT ![id] = @ - 1]
  /\ UNCHANGED <<clientLoads, staleUnloads, gltf, scene, extension, subdivision, gltfLoader, model>>

\* when.all of the schema and the buffer views settled.
FeatureMetadataResolved(id) ==
  /\ loaders[id].kind = "featureMetadata" /\ loaders[id].pc = "all"
  /\ AllPromises(id) = {"resolved"}
  /\ Commit(FeatureMetadataThen(St, id)) /\ Rest

FeatureMetadataRejected(id) ==
  /\ loaders[id].kind = "featureMetadata" /\ loaders[id].pc = "all"
  /\ "rejected" \in AllPromises(id)
  /\ Commit(FeatureMetadataOtherwise(St, id)) /\ Rest

\* The dependency of a vertex buffer, index buffer or texture loader settled.
GpuDependencyResolved(id) ==
  /\ loaders[id].kind \in {"vertexBuffer", "indexBuffer", "texture"}
  /\ loaders[id].pc = "wait" /\ DepPromise(id) = "resolved"
  /\ Commit(GpuDependencyThen(St, id)) /\ Rest

GpuDependencyRejected(id) ==
  /\ loaders[id].kind \in {"vertexBuffer", "indexBuffer", "texture"}
  /\ loaders[id].pc = "wait" /\ DepPromise(id) = "rejected"
  /\ Commit(GpuHandleError(St, id)) /\ Rest

\* The GltfLoader, its model and the rest of the state, as the operators of
\* the GltfLoader and of ModelRuntime thread them.
X == [st |-> St, gl |-> gltfLoader, m |-> model]

CommitX(x) ==
  /\ Commit(x.st)
  /\ gltfLoader' = x.gl
  /\ model' = x.m
  /\ UNCHANGED <<clientRefs, clientLoads, staleUnloads, gltf, scene, extension, subdivision>>

\* The owner calls load() on its GltfLoader.
GltfLoaderLoads ==
  /\ Quiescent
  /\ gltfLoader.pc = "new" /\ ~gltfLoader.isDestroyed
  /\ CommitX(GltfLoaderLoad(X))

\* The glTF JSON loader's promise resolved.
GltfLoaderResolved ==
  /\ gltfLoader.pc = "wait"
  /\ loaders[value(gltfLoader.dep)].promise = "resolved"
  /\ CommitX(GltfLoaderThen(X, scene))

\* The owner destroys its GltfLoader.
GltfLoaderDestroys ==
  /\ Quiescent
  /\ gltfLoader.pc # "new" /\ ~gltfLoader.isDestroyed
  /\ CommitX(GltfLoaderDestroy(X))

\* A frame: the owner calls update() on the model its GltfLoader has parsed.
ModelRuntimeUpdates ==
  /\ Quiescent
  /\ model.parsed /\ ~gltfLoader.isDestroyed
  /\ CommitX([ModelRuntimeUpdate(X) EXCEPT !.m.updated = TRUE])

\* Model.prototype.update of the model that owns the GltfLoader (state is
\* _state, threw whether a call has ended in an exception): nothing before
\* the WebP detection is initialized or while morphing; an UNLOADED model
\* becomes LOADING and the call load(model, frameState) is evaluated, where
\* model is a name the function does not declare, a ReferenceError before
\* load is entered; a PROCESSING model calls update, which no function of
\* the module is.
ModelUpdate(initialized, morphing) ==
  /\ Quiescent
  /\ model' = IF ~initialized \/ morphing
              THEN model
              ELSE IF model.state = "UNLOADED"
                   THEN [model EXCEPT !.state = "LOADING", !.threw = TRUE]
                   ELSE IF model.state = "PROCESSING"
                        THEN [model EXCEPT !.threw = TRUE]
                        ELSE model
  /\ UNCHANGED <<cacheEntries, loaders, errors, clientRefs, clientLoads,
                 staleUnloads, gltf, scene, extension, subdivision, gltfLoader>>

Next ==
  \/ \E key \in ClientKeys : ClientLoad(key)
  \/ \E id \in Ids : ClientUnload(id)
  \/ \E id \in Ids : ClientUnloadStale(id)
  \/ \E id \in Ids : BufferFetchSucceeds(id)
  \/ \E id \in Ids : BufferFetchFails(id)
  \/ \E id \in Ids : BufferViewResolved(id)
  \/ \E id \in Ids : BufferViewRejected(id)
  \/ \E id \in Ids : ImageBufferViewResolved(id)
  \/ \E id \in Ids : ImageBufferViewRejected(id)
  \/ \E id \in Ids : ImageArrives(id)
  \/ \E id \in Ids : ImageFails(id)
  \/ \E id \in Ids : DracoBufferViewResolved(id)
  \/ \E id \in Ids : DracoBufferViewRejected(id)
  \/ \E id \in Ids : DracoUpdates(id)
  \/ \E id \in Ids : DracoDecodeResolved(id)
  \/ \E id \in Ids, parseOk \in BOOLEAN : JsonFetchSucceeds(id, parseOk)
  \/ \E id \in Ids : JsonFetchFails(id)
  \/ \E id \in Ids, ok \in BOOLEAN : JsonDataUrisSettled(id, ok)
  \/ \E id \in Ids, upgradeOk \in BOOLEAN : JsonUpgradeResolved(id, upgradeOk)
  \/ \E id \in Ids : JsonEmbeddedResolved(id)
  \/ \E id \in Ids : JsonBuffersRejected(id)

Spec == Init /\ [][Next]_vars

\* --------------------------------------- the buffer view's slice, alone
\* Every document with one buffer view of one external buffer.
InitSlice ==
  /\ InitCache
  /\ scene = [nodes |-> <<>>, featureMetadata |-> FALSE]
  /\ extension = [featureTables |-> undefined, requests |-> <<>>, pc |-> "new"]
  /\ subdivision = [subdivisionScheme |-> "QUADTREE", debug |-> TRUE,
                    result |-> undefined, threw |-> FALSE, pc |-> "new"]
  /\ gltf \in {d \in Documents : /\ d.version = "2.0" /\ ~d.hasEmbedded
                                 /\ ~d.hasDataUri /\ d.image = Png}

NextSlice ==
  \/ ClientLoad(BufferViewKey)
  \/ \E id \in Ids : ClientUnload(id)
  \/ \E id \in Ids : BufferFetchSucceeds(id)
  \/ \E id \in Ids : BufferFetchFails(id)
  \/ \E id \in Ids : BufferViewResolved(id)
  \/ \E id \in Ids : BufferViewRejected(id)

SliceSpec == InitSlice /\ [][NextSlice]_vars

\* ------------------------------------- the feature metadata loader, alone
\* A document whose metadata extension has an inline schema and one feature
\* table property backed by the buffer view.
InitMetadata ==
  /\ InitCache
  /\ scene = [nodes |-> <<>>, featureMetadata |-> FALSE]
  /\ extension = [featureTables |-> undefined, requests |-> <<>>, pc |-> "new"]
  /\ subdivision = [subdivisionScheme |-> "QUADTREE", debug |-> TRUE,
                    result |-> undefined, threw |-> FALSE, pc |-> "new"]
  /\ gltf \in {d \in Documents : /\ d.byteOffset = 1 /\ d.byteLength = 2
                                 /\ d.buffer = Uint8Array(1, 3)
                                 /\ d.version = "2.0" /\ ~d.hasEmbedded
                                 /\ ~d.hasDataUri /\ d.image = Png}

NextMetadata ==
  \/ \E registers \in BOOLEAN : OwnerLoadsFeatureMetadata(registers)
  \/ \E id \in Ids : OwnerUnloadsFeatureMetadata(id)
  \/ ClientLoad(BufferViewKey)
  \/ \E id \in Ids : ClientUnload(id)
  \/ \E id \in Ids : BufferFetchSucceeds(id)
  \/ \E id \in Ids : BufferFetchFails(id)
  \/ \E id \in Ids : BufferViewResolved(id)
  \/ \E id \in Ids : BufferViewRejected(id)
  \/ \E id \in Ids : FeatureMetadataResolved(id)
  \/ \E id \in Ids : FeatureMetadataRejected(id)

MetadataSpec == InitMetadata /\ [][NextMetadata]_vars

\* ------------------------------------------- the GltfLoader and its model
\* The documents, each of one node with a mesh (OneMesh) or of no node:
\* a plain primitive; one with indices without a buffer view; one with an
\* attribute without a buffer view; a Draco primitive with a morph target;
\* a Draco primitive whose accessors have no buffer view; a material with
\* three texture slots; two primitives with the same base color texture;
\* a primitive that declares two feature-ID attributes; a node with the GPU
\* instancing extension of one attribute;
\* no nodes; no nodes and the feature metadata extension.  An accessor has a
\* buffer view (WithView) or none (NoView); a glTF material is given by the
\* texture each of its slots references.
Scenes ==
  LET WithView == [bufferView |-> <<0>>]
      NoView == [bufferView |-> undefined]
      Draco == <<"KHR_draco_mesh_compression">>
      GltfMaterial(textures) ==
        [slot \in {SlotOrder[i] : i \in 1..Len(SlotOrder)} |->
           IF slot \in DOMAIN textures THEN <<textures[slot]>> ELSE undefined]
      GltfPrimitive(attributes, targets, indices, draco, material) ==
        [attributes |-> attributes, targets |-> targets, indices |-> indices,
         draco |-> draco, material |-> material, featureMetadata |-> undefined]
      OneMesh(primitives) ==
        [nodes |-> <<[mesh |-> <<primitives>>, extensions |-> undefined]>>,
         featureMetadata |-> FALSE]
      Plain == GltfPrimitive(<<WithView>>, <<>>, undefined, undefined, undefined)
      BaseColor == <<GltfMaterial([baseColorTexture |-> 1])>>
  IN
  {OneMesh(<<GltfPrimitive(<<WithView>>, <<>>, <<WithView>>, undefined, undefined)>>),
   OneMesh(<<GltfPrimitive(<<WithView>>, <<>>, <<NoView>>, undefined, undefined)>>),
   OneMesh(<<GltfPrimitive(<<NoView>>, <<>>, undefined, undefined, undefined)>>),
   OneMesh(<<GltfPrimitive(<<WithView>>, <<<<WithView>>>>, <<WithView>>, Draco,
                           undefined)>>),
   OneMesh(<<GltfPrimitive(<<NoView>>, <<>>, <<NoView>>, Draco, undefined)>>),
   OneMesh(<<GltfPrimitive(<<WithView>>, <<>>, undefined, undefined,
                           <<GltfMaterial([baseColorTexture |-> 1,
                                           metallicRoughnessTexture |-> 2,
                                           normalTexture |-> 1])>>)>>),
   OneMesh(<<GltfPrimitive(<<WithView>>, <<>>, undefined, undefined, BaseColor),
             GltfPrimitive(<<WithView>>, <<>>, undefined, undefined, BaseColor)>>),
   OneMesh(<<[Plain EXCEPT !.featureMetadata =
                       <<[featureIdAttributes |-> <<<<0>>, <<1>>>>]>>]>>),
   [nodes |-> <<[mesh |-> <<<<Plain>>>>, extensions |-> <<<<WithView>>>>]>>,
    featureMetadata |-> FALSE],
   [nodes |-> <<>>, featureMetadata |-> FALSE],
   [nodes |-> <<>>, featureMetadata |-> TRUE]}

InitRuntime ==
  /\ InitCache
  /\ scene \in Scenes
  /\ extension = [featureTables |-> undefined, requests |-> <<>>, pc |-> "new"]
  /\ subdivision = [subdivisionScheme |-> "QUADTREE", debug |-> TRUE,
                    result |-> undefined, threw |-> FALSE, pc |-> "new"]
  /\ gltf \in {d \in Documents : /\ d.byteOffset = 1 /\ d.byteLength = 2
                                 /\ d.buffer = Uint8Array(1, 3)
                                 /\ d.version = "2.0" /\ ~d.hasEmbedded
                                 /\ ~d.hasDataUri /\ d.image = Png}

NextRuntime ==
  \/ ClientLoad(GltfKey)
  \/ \E initialized, morphing \in BOOLEAN : ModelUpdate(initialized, morphing)
  \/ GltfLoaderLoads
  \/ GltfLoaderResolved
  \/ GltfLoaderDestroys
  \/ ModelRuntimeUpdates
  \/ \E id \in Ids, parseOk \in BOOLEAN : JsonFetchSucceeds(id, parseOk)
  \/ \E id \in Ids : JsonFetchFails(id)
  \/ \E id \in Ids : BufferFetchSucceeds(id)
  \/ \E id \in Ids : BufferFetchFails(id)
  \/ \E id \in Ids : BufferViewResolved(id)
  \/ \E id \in Ids : BufferViewRejected(id)
  \/ \E id \in Ids : DracoBufferViewResolved(id)
  \/ \E id \in Ids : DracoBufferViewRejected(id)
  \/ \E id \in Ids : ImageArrives(id)
  \/ \E id \in Ids : ImageFails(id)
  \/ \E id \in Ids : GpuDependencyResolved(id)
  \/ \E id \in Ids : GpuDependencyRejected(id)

RuntimeSpec == InitRuntime /\ [][NextRuntime]_vars

\* ------------------------------------------- the embedded image, alone
\* Every image of ImageTypedArrays in a buffer view of the external buffer.
InitSniff ==
  /\ InitCache
  /\ scene = [nodes |-> <<>>, featureMetadata |-> FALSE]
  /\ extension = [featureTables |-> undefined, requests |-> <<>>, pc |-> "new"]
  /\ subdivision = [subdivisionScheme |-> "QUADTREE", debug |-> TRUE,
                    result |-> undefined, threw |-> FALSE, pc |-> "new"]
  /\ gltf \in {d \in Documents : /\ d.byteOffset = 1 /\ d.byteLength = 2
                                 /\ d.buffer = Uint8Array(1, 3)
                                 /\ d.version = "2.0" /\ ~d.hasEmbedded
                                 /\ ~d.hasDataUri}

NextSniff ==
  \/ ClientLoad(ImageKey)
  \/ \E id \in Ids : ClientUnload(id)
  \/ \E id \in Ids : BufferFetchSucceeds(id)
  \/ \E id \in Ids : BufferFetchFails(id)
  \/ \E id \in Ids : BufferViewResolved(id)
  \/ \E id \in Ids : BufferViewRejected(id)
  \/ \E id \in Ids : ImageBufferViewResolved(id)
  \/ \E id \in Ids : ImageBufferViewRejected(id)
  \/ \E id \in Ids : ImageArrives(id)
  \/ \E id \in Ids : ImageFails(id)

SniffSpec == InitSniff /\ [][NextSniff]_vars

\* ------------------------------- functions of one call, on their inputs
\* The most feature tables an extension declares.
MaxFeatureTables == 2

\* loadBufferViews with a list in place of the dictionary bufferViewIds:
\* every reference is kept and requested.
loadBufferViewsPerReference(featureTables) ==
  LET Property(ids, property) ==
        ids \o SelectSeq(<<property.bufferView, property.arrayOffsetBufferView,
                           property.stringOffsetBufferView>>, defined)
      RECURSIVE Properties(_, _, _)
      Properties(ids, properties, i) ==
        IF i > Len(properties)
        THEN ids
        ELSE Properties(Property(ids, properties[i]), properties, i + 1)
      RECURSIVE Tables(_, _, _)
      Tables(ids, tables, i) ==
        IF i > Len(tables)
        THEN ids
        ELSE Tables(IF defined(tables[i].properties)
                    THEN Properties(ids, value(tables[i].properties), 1)
                    ELSE ids,
                    tables, i + 1)
      Gathered(ids) == [i \in 1..Len(ids) |-> value(ids[i])]
  IN  IF defined(featureTables)
      THEN Gathered(Tables(<<>>, value(featureTables), 1))
      ELSE <<>>

\* loadBufferViews of GltfFeatureMetadataLoader, as the list of the buffer
\* view ids it passes to ResourceCache.loadBufferView.  The first loops set
\* bufferViewIds[id] = true for the three references of every property of
\* every feature table (ids is the set of keys of that dictionary); the
\* second loop, for (bufferViewId in bufferViewIds), visits the keys, which
\* are integers, in ascending order and requests each.
loadBufferViews(featureTables) ==
  LET Property(ids, property) ==
        ids \cup {value(reference) :
                    reference \in {r \in {property.bufferView,
                                           property.arrayOffsetBufferView,
                                           property.stringOffsetBufferView} :
                                     defined(r)}}
      RECURSIVE Properties(_, _, _)
      Properties(ids, properties, i) ==
        IF i > Len(properties)
        THEN ids
        ELSE Properties(Property(ids, properties[i]), properties, i + 1)
      RECURSIVE Tables(_, _, _)
      Tables(ids, tables, i) ==
        IF i > Len(tables)
        THEN ids
        ELSE Tables(IF defined(tables[i].properties)
                    THEN Properties(ids, value(tables[i].properties), 1)
                    ELSE ids,
                    tables, i + 1)
      RECURSIVE Requests(_, _)
      Requests(requests, ids) ==
        IF ids = {}
        THEN requests
        ELSE LET bufferViewId == CHOOSE id \in ids : \A other \in ids : id <= other
             IN  Requests(Append(requests, bufferViewId), ids \ {bufferViewId})
  IN  Requests(<<>>, IF defined(featureTables)
                     THEN Tables({}, value(featureTables), 1)
                     ELSE {})

\* getBranchingFactor that has no default case in any build.
getBranchingFactorWithoutDefault(subdivisionScheme, debug) ==
  CASE subdivisionScheme = "OCTREE" -> [result |-> <<8>>, threw |-> FALSE]
    [] subdivisionScheme = "QUADTREE" -> [result |-> <<4>>, threw |-> FALSE]
    [] OTHER -> [result |-> undefined, threw |-> FALSE]

\* ImplicitSubdivisionScheme.getBranchingFactor: what the call returned, or
\* that it threw the DeveloperError.  The default case of the switch stands
\* between the debug pragmas, so it is part of a debug build only; in a
\* build without it the switch falls through and the function returns
\* undefined.
getBranchingFactor(subdivisionScheme, debug) ==
  CASE subdivisionScheme = "OCTREE" -> [result |-> <<8>>, threw |-> FALSE]
    [] subdivisionScheme = "QUADTREE" -> [result |-> <<4>>, threw |-> FALSE]
    [] OTHER -> IF debug
                THEN [result |-> undefined, threw |-> TRUE]
                ELSE [result |-> undefined, threw |-> FALSE]

\* A GltfFeatureMetadataLoader's loadBufferViews runs on an extension:
\* featureTables is absent or has up to MaxFeatureTables tables, each
\* without properties or with one property; each of the three references of
\* a property is absent or buffer view 0 or 1.
LoadBufferViews ==
  /\ extension.pc = "new"
  /\ LET References == {undefined, <<0>>, <<1>>}
         FeatureTable ==
           {[properties |-> undefined]}
             \cup {[properties |-> <<<<property>>>>] :
                     property \in [bufferView : References,
                                   arrayOffsetBufferView : References,
                                   stringOffsetBufferView : References]}
         FeatureTables ==
           {undefined}
             \cup {<<tables>> : tables \in UNION {[1..n -> FeatureTable] :
                                                   n \in 0..MaxFeatureTables}}
     IN  \E featureTables \in FeatureTables :
           extension' = [featureTables |-> featureTables,
                         requests |-> loadBufferViews(featureTables),
                         pc |-> "done"]
  /\ UNCHANGED <<cacheEntries, loaders, clientRefs, clientLoads, staleUnloads,
                 errors, gltf, scene, gltfLoader, model, subdivision>>

\* A caller asks for the branching factor of a subdivision scheme.
GetBranchingFactor(subdivisionScheme, debug) ==
  /\ subdivision.pc = "new"
  /\ subdivision' = [subdivisionScheme |-> subdivisionScheme, debug |-> debug,
                     result |-> getBranchingFactor(subdivisionScheme, debug).result,
                     threw |-> getBranchingFactor(subdivisionScheme, debug).threw,
                     pc |-> "done"]
  /\ UNCHANGED <<cacheEntries, loaders, clientRefs, clientLoads, staleUnloads,
                 errors, gltf, scene, gltfLoader, model, extension>>

InitCalls ==
  /\ InitCache
  /\ scene = [nodes |-> <<>>, featureMetadata |-> FALSE]
  /\ extension = [featureTables |-> undefined, requests |-> <<>>, pc |-> "new"]
  /\ subdivision = [subdivisionScheme |-> "QUADTREE", debug |-> TRUE,
                    result |-> undefined, threw |-> FALSE, pc |-> "new"]
  /\ gltf \in {d \in Documents : /\ d.byteOffset = 1 /\ d.byteLength = 2
                                 /\ d.buffer = Uint8Array(1, 3)
                                 /\ d.version = "2.0" /\ ~d.hasEmbedded
                                 /\ ~d.hasDataUri /\ d.image = Png}

\* The subdivision schemes are the two of the enumeration and four values
\* that are neither, in a debug build and in a build without the debug
\* pragmas.
NextCalls ==
  \/ LoadBufferViews
  \/ \E subdivisionScheme \in {"QUADTREE", "OCTREE", "quadtree", "octree", "BINARY", ""},
        debug \in BOOLEAN :
       GetBranchingFactor(subdivisionScheme, debug)

CallsSpec == InitCalls /\ [][NextCalls]_vars

\* ------------------------------------------------------------ properties
Rank(state) ==
  CASE state = "UNLOADED" -> 0
    [] state = "LOADING" -> 1
    [] state = "PROCESSING" -> 2
    [] state \in {"READY", "FAILED"} -> 3
    [] state = "DESTROYED" -> 4

\* C1: every loader the cache constructed had load() called exactly once, and
\* every loader that is not destroyed is the one registered under its key: a
\* key never has two live instances, and every request for it while the entry
\* is live was answered with that one instance.
C1_SingleFlight ==
  \A id \in Ids :
    /\ loaders[id].loadCalls = 1
    /\ ~loaders[id].isDestroyed => Registered(St, id)

\* A key requested twice while live: one instance, counted twice, loaded once.
C1_Witness ==
  \E id \in Ids :
    /\ Registered(St, id)
    /\ cacheEntries[loaders[id].cacheKey].referenceCount = 2
    /\ loaders[id].cacheLoads = 2
    /\ loaders[id].loadCalls = 1

\* C2: for a loader whose unload calls never outnumbered the load calls that
\* returned it, the entry is there exactly while loads minus unloads is
\* positive, its count is that difference, and the loader is destroyed
\* exactly when the entry is gone.
C2_RefCountExact ==
  \A id \in Ids :
    loaders[id].cacheUnloads <= loaders[id].cacheLoads =>
      /\ Registered(St, id) <=> loaders[id].cacheLoads - loaders[id].cacheUnloads > 0
      /\ Registered(St, id) =>
           cacheEntries[loaders[id].cacheKey].referenceCount =
             loaders[id].cacheLoads - loaders[id].cacheUnloads
      /\ loaders[id].isDestroyed <=> ~Registered(St, id)

\* A loader requested twice and released twice: destroyed at the second release.
C2_Witness ==
  \E id \in Ids :
    /\ loaders[id].cacheLoads = 2
    /\ loaders[id].cacheUnloads = 2
    /\ loaders[id].isDestroyed
    /\ loaders[id].cacheKey \notin DOMAIN cacheEntries

\* C3: an unload call on a loader that is not registered is rejected (counted
\* as an error) and changes neither the registry nor any loader's fields.
C3_StaleUnloadRejected ==
  [][staleUnloads' # staleUnloads =>
       /\ errors' = errors + 1
       /\ cacheEntries' = cacheEntries
       /\ \A id \in Ids :
            loaders'[id] = [loaders[id] EXCEPT
                              !.cacheUnloads = loaders'[id].cacheUnloads]]_vars

\* A rejected unload on the destroyed first instance of a key whose second
\* instance is registered.
C3_Witness ==
  /\ staleUnloads > 0
  /\ errors > 0
  /\ \E id \in Ids, other \in Ids :
       /\ loaders[id].isDestroyed
       /\ loaders[id].cacheUnloads > loaders[id].cacheLoads
       /\ loaders[other].cacheKey = loaders[id].cacheKey
       /\ Registered(St, other)

\* C4: a loader's state only moves forward through UNLOADED, LOADING,
\* PROCESSING, then READY or FAILED, then DESTROYED; nothing follows DESTROYED.
C4_StateMonotone ==
  [][\A id \in Ids :
       \/ loaders'[id].state = loaders[id].state
       \/ Rank(loaders'[id].state) > Rank(loaders[id].state)]_vars

\* C5: in no step does a destroyed loader resolve its promise, take a result
\* or enter READY.
C5_DestroyedNeverPublishes ==
  [][\A id \in Ids :
       loaders[id].isDestroyed =>
         /\ loaders'[id].resolveCalls = loaders[id].resolveCalls
         /\ loaders'[id].result = undefined
         /\ loaders'[id].state # "READY"]_vars

\* An image loader and a glTF JSON loader, each destroyed while its fetch or
\* decode was in flight, whose success continuation then ran.
C5_Witness ==
  \E id \in Ids :
    /\ loaders[id].kind \in {"image", "gltf"}
    /\ loaders[id].lateSuccess
    /\ loaders[id].pc = "done"
    /\ loaders[id].state = "DESTROYED"
    /\ loaders[id].promise = "pending"

\* C6: in no step does a destroyed loader reject its promise or leave DESTROYED.
C6_LateFailureSwallowed ==
  [][\A id \in Ids :
       (loaders[id].isDestroyed /\ loaders[id].state = "DESTROYED") =>
         /\ loaders'[id].rejectCalls = loaders[id].rejectCalls
         /\ loaders'[id].state = "DESTROYED"]_vars

\* C7: resolve and reject are called at most once, together, on a loader's deferred.
C7_SingleSettle ==
  \A id \in Ids : loaders[id].resolveCalls + loaders[id].rejectCalls <= 1

\* A Draco loader that decoded and resolved, once.
C7_Witness ==
  \E id \in Ids :
    /\ loaders[id].kind = "draco"
    /\ loaders[id].state = "READY"
    /\ loaders[id].decodePromise
    /\ loaders[id].resolveCalls = 1

\* C8: a loader that met a failure while not destroyed is FAILED with its
\* promise rejected, and a FAILED loader holds no handle and has released as
\* many references as it acquired, until it is destroyed.
C8_FailureReleasesAll ==
  \A id \in Ids :
    /\ (loaders[id].failedLive /\ ~loaders[id].isDestroyed) =>
         /\ loaders[id].state = "FAILED"
         /\ loaders[id].promise = "rejected"
    /\ (loaders[id].state = "FAILED" /\ ~loaders[id].isDestroyed) =>
         /\ loaders[id].child = undefined
         /\ loaders[id].refsHeld = 0

\* An image loader that failed after it had acquired its buffer view, and a
\* glTF JSON loader that failed after it had acquired a buffer.
C8_Witness ==
  \/ \E id \in Ids :
       /\ loaders[id].kind = "image"
       /\ loaders[id].state = "FAILED"
       /\ ~loaders[id].isDestroyed
       /\ defined(loaders[id].dep)
       /\ loaders[value(loaders[id].dep)].state = "READY"
  \/ \E id \in Ids :
       /\ loaders[id].kind = "gltf"
       /\ loaders[id].state = "FAILED"
       /\ ~loaders[id].isDestroyed
       /\ loaders[id].bufferLoaders # <<>>

\* C9: a READY buffer view of byteOffset o and byteLength L in a parent of N
\* bytes, o + L <= N, has L bytes and its i-th byte is the parent's byte o + i.
C9_SliceExact ==
  \A id \in Ids :
    (/\ loaders[id].kind = "bufferView"
     /\ loaders[id].state = "READY"
     /\ gltf.byteOffset + gltf.byteLength <= gltf.buffer.byteLength) =>
      LET view == value(loaders[id].result)
          parent == value(loaders[id].parentTypedArray)
      IN  /\ parent = gltf.buffer
          /\ view.byteLength = gltf.byteLength
          /\ \A i \in 0..(gltf.byteLength - 1) :
               ByteAt(view, i) = ByteAt(parent, gltf.byteOffset + i)

\* A READY view that starts inside a parent that itself starts inside its ArrayBuffer.
C9_Witness ==
  \E id \in Ids :
    /\ loaders[id].kind = "bufferView"
    /\ loaders[id].state = "READY"
    /\ gltf.buffer.byteOffset > 0
    /\ gltf.byteOffset > 0
    /\ gltf.byteLength = 2
    /\ gltf.byteOffset + gltf.byteLength <= gltf.buffer.byteLength

\* C10: a READY buffer view holds its parent buffer loader, which is
\* registered with a count of at least one and is not destroyed.
C10_ParentAliveWhileReady ==
  \A id \in Ids :
    (loaders[id].kind = "bufferView" /\ loaders[id].state = "READY") =>
      /\ defined(loaders[id].child)
      /\ Registered(St, value(loaders[id].child))
      /\ cacheEntries[BufferKey].referenceCount >= 1
      /\ ~loaders[value(loaders[id].child)].isDestroyed

\* The codec the documented signature table gives for the bytes: bytes 0-1,
\* or RIFF at bytes 0-3 together with WEBP at bytes 8-11; "none" otherwise.
DocumentedCodec(typedArray) ==
  LET b(i) == IF i < Len(typedArray) THEN typedArray[i + 1] ELSE -1
  IN  CASE b(0) = 66 /\ b(1) = 73 -> "bmp"
        [] b(0) = 71 /\ b(1) = 73 -> "gif"
        [] b(0) = 255 /\ b(1) = 216 -> "jpeg"
        [] b(0) = 137 /\ b(1) = 80 -> "png"
        [] b(0) = 171 /\ b(1) = 75 -> "ktx"
        [] b(0) = 72 /\ b(1) = 120 -> "crn"
        [] b(0) = 115 /\ b(1) = 66 -> "basis"
        [] /\ <<b(0), b(1), b(2), b(3)>> = <<82, 73, 70, 70>>
           /\ <<b(8), b(9), b(10), b(11)>> = <<87, 69, 66, 80>> -> "webp"
        [] OTHER -> "none"

\* The compressed texture containers among the codecs, and their decoders.
CompressedContainers == {"ktx", "crn", "basis"}

ContainerDecoders == {"loadKTX", "loadCRN"}

\* C11: an image loader that has sniffed bytes carrying a documented
\* signature found that codec's mime type and called the decode function of
\* its kind: a compressed-texture-container decoder (loadKTX for KTX, loadCRN
\* for CRN) for a compressed container, the ordinary image decode for the rest.
C11_DecodePathMatches ==
  \A id \in Ids :
    LET codec == DocumentedCodec(gltf.image)
    IN  (/\ loaders[id].kind = "image"
         /\ defined(loaders[id].mimeType)
         /\ codec # "none") =>
          /\ value(loaders[id].mimeType) = CASE codec = "bmp" -> "image/bmp"
                                             [] codec = "gif" -> "image/gif"
                                             [] codec = "jpeg" -> "image/jpeg"
                                             [] codec = "png" -> "image/png"
                                             [] codec = "ktx" -> "image/ktx"
                                             [] codec = "crn" -> "image/crn"
                                             [] codec = "basis" -> "image/basis"
                                             [] codec = "webp" -> "image/webp"
          /\ defined(loaders[id].decoder)
          /\ codec = "ktx" => value(loaders[id].decoder) = "loadKTX"
          /\ codec = "crn" => value(loaders[id].decoder) = "loadCRN"
          /\ codec \in CompressedContainers <=>
               value(loaders[id].decoder) \in ContainerDecoders

\* C12: an image loader that has sniffed bytes carrying no documented
\* signature is FAILED (until it is destroyed) with its promise rejected once,
\* has started no decode, holds no buffer view and has released exactly the
\* one reference it acquired.
C12_InvalidHeaderFails ==
  \A id \in Ids :
    (/\ loaders[id].kind = "image"
     /\ defined(loaders[id].mimeType)
     /\ DocumentedCodec(gltf.image) = "none") =>
      /\ loaders[id].state = IF loaders[id].isDestroyed THEN "DESTROYED" ELSE "FAILED"
      /\ loaders[id].promise = "rejected"
      /\ loaders[id].rejectCalls = 1
      /\ loaders[id].decoder = undefined
      /\ loaders[id].child = undefined
      /\ loaders[id].refsHeld = 0
      /\ loaders[value(loaders[id].dep)].cacheUnloads = 1

\* A live image loader whose bytes start RIFF but do not continue WEBP,
\* failed by the sniff, its buffer view released and destroyed.
C12_Witness ==
  \E id \in Ids :
    /\ loaders[id].kind = "image"
    /\ gltf.image = <<82, 73, 70, 70, 0, 0, 0, 0, 87, 65, 86, 69>>
    /\ loaders[id].mimeType = <<"RuntimeError">>
    /\ loaders[id].state = "FAILED"
    /\ loaders[value(loaders[id].dep)].isDestroyed

\* C13: a live Draco loader that holds its buffer view's bytes, its decode
\* not yet completed, is in state PROCESSING.
C13_ProcessingWhileDecoding ==
  \A id \in Ids :
    (/\ loaders[id].kind = "draco"
     /\ ~loaders[id].isDestroyed
     /\ defined(loaders[id].bufferViewTypedArray)) =>
      loaders[id].state = "PROCESSING"

\* Every field but the record of the update() call itself.
SameButUpdatedIn(id) ==
  loaders'[id] = [loaders[id] EXCEPT !.updatedIn = loaders'[id].updatedIn]

\* C14: an update() call on a Draco loader that is LOADING and has no bytes
\* yet, or has a decode running, changes no field of any loader and nothing
\* in the cache.
C14_UpdateDefers ==
  [][\A id \in Ids :
       (/\ loaders'[id].updatedIn # loaders[id].updatedIn
        /\ loaders[id].state = "LOADING"
        /\ \/ ~defined(loaders[id].bufferViewTypedArray)
           \/ loaders[id].decodePromise) =>
         /\ cacheEntries' = cacheEntries
         /\ \A other \in Ids : SameButUpdatedIn(other)]_vars

\* A Draco loader whose update() was called while it waited for its buffer
\* view: still LOADING, still holding the buffer view, no decode started.
C14_Witness ==
  \E id \in Ids :
    /\ loaders[id].kind = "draco"
    /\ loaders[id].updatedIn = <<"LOADING">>
    /\ loaders[id].state = "LOADING"
    /\ loaders[id].pc = "wait"
    /\ defined(loaders[id].child)
    /\ ~loaders[id].decodePromise

\* C15: a READY Draco loader holds no buffer view, no source bytes and no
\* cache reference: the one it acquired was released.
C15_ReadyHoldsNoSource ==
  \A id \in Ids :
    (loaders[id].kind = "draco" /\ loaders[id].state = "READY") =>
      /\ loaders[id].child = undefined
      /\ loaders[id].bufferViewTypedArray = undefined
      /\ loaders[id].refsHeld = 0
      /\ loaders[value(loaders[id].dep)].cacheUnloads >= 1

\* A Draco loader that decoded: READY, resolved, its buffer view released.
C15_Witness ==
  \E id \in Ids :
    /\ loaders[id].kind = "draco"
    /\ loaders[id].state = "READY"
    /\ loaders[id].promise = "resolved"
    /\ loaders[value(loaders[id].dep)].isDestroyed

\* C16: an update() call on a loader that is READY or FAILED changes no field
\* of any loader and nothing in the cache.
C16_UpdateAfterTerminal ==
  [][\A id \in Ids :
       (/\ loaders'[id].updatedIn # loaders[id].updatedIn
        /\ loaders[id].state \in {"READY", "FAILED"}) =>
         /\ cacheEntries' = cacheEntries
         /\ \A other \in Ids : SameButUpdatedIn(other)]_vars

\* A Draco loader on which update() was called after it became READY.
C16_Witness ==
  \E id \in Ids :
    /\ loaders[id].kind = "draco"
    /\ loaders[id].updatedIn = <<"READY">>
    /\ loaders[id].state = "READY"
    /\ loaders[id].promise = "resolved"

\* C17: a READY loader exposes its result.
C17_ReadyHasResult ==
  \A id \in Ids : loaders[id].state = "READY" => defined(loaders[id].result)

\* C18: a loader on which load() was called is no longer UNLOADED, and no
\* continuation of a loader has found it UNLOADED.
C18_LoadEntersLoading ==
  \A id \in Ids :
    /\ loaders[id].loadCalls > 0 => loaders[id].state # "UNLOADED"
    /\ ~loaders[id].sawUnloaded

\* C19: a glTF JSON loader has its gltf exactly when it is READY; while it
\* is LOADING it has none; and a READY one has finished decodeDataUris,
\* upgradeVersion, addDefaults and loadEmbeddedBuffers in that order, with
\* every buffer loader it requested resolved.
C19_ReadyAfterAllSteps ==
  \A id \in Ids :
    loaders[id].kind = "gltf" =>
      /\ defined(loaders[id].result) <=> loaders[id].state = "READY"
      /\ loaders[id].state = "READY" =>
           /\ loaders[id].steps = ProcessGltfSteps
           /\ \A i \in 1..Len(loaders[id].bufferLoaders) :
                loaders[loaders[id].bufferLoaders[i]].promise = "resolved"

\* A READY glTF JSON loader of a legacy document, and one of a document with
\* a data uri buffer: each waited for a buffer loader.
C19_Witness ==
  \E id \in Ids :
    /\ loaders[id].kind = "gltf"
    /\ loaders[id].state = "READY"
    /\ loaders[id].bufferLoaders # <<>>
    /\ loaders[id].promise = "resolved"

\* C20: a READY glTF JSON loader holds cache references on its embedded
\* buffer loaders only: those on the external buffers of the upgrade have
\* been released.
C20_UpgradeBuffersReleased ==
  \A id \in Ids :
    (loaders[id].kind = "gltf" /\ loaders[id].state = "READY") =>
      loaders[id].refsHeld =
        Cardinality({i \in 1..Len(loaders[id].bufferLoaders) :
                       loaders[loaders[id].bufferLoaders[i]].cacheKey = EmbeddedBufferKey})

\* ------------------------------------------- the GltfLoader and its model
\* C21: the GltfLoader releases the glTF JSON loader only once the tree is
\* built: every cache request of the walk was issued while the GltfLoader
\* still held the glTF JSON loader.
C21_JsonReleasedAfterParse ==
  \A i \in 1..Len(model.requests) : model.requests[i].jsonHeld

\* C22: an accessor without a buffer view (and without Draco) gives a
\* component with constantValue 0 and no cache resource, without a cache
\* request and without an error; an accessor with a buffer view gives a
\* component with a cache resource and no constant value.  Stated on the
\* tree parse has built from a document without Draco compression, for the
\* attributes and the indices of every primitive.
C22_ConstantValueWithoutBufferView ==
  LET Built(accessor, component) ==
        IF defined(accessor.bufferView)
        THEN defined(component.cacheResource) /\ ~defined(component.constantValue)
        ELSE ~defined(component.cacheResource) /\ component.constantValue = <<0>>
      Viewed(accessors) ==
        Cardinality({i \in 1..Len(accessors) : defined(accessors[i].bufferView)})
      Issued(for) ==
        Cardinality({i \in 1..Len(model.requests) : model.requests[i].for = for})
      Plain ==
        \A n \in 1..Len(scene.nodes) :
          \A p \in 1..Len(value(scene.nodes[n].mesh)) :
            ~defined(value(scene.nodes[n].mesh)[p].draco)
  IN  (model.parsed /\ ~scene.featureMetadata /\ Plain) =>
        /\ ~model.parseThrew
        /\ defined(model.nodes)
        /\ \A n \in 1..Len(scene.nodes) :
             LET gltfPrimitives == value(scene.nodes[n].mesh)
                 node == value(SelectSeq(value(model.nodes), defined)[n])
                 primitives == value(node.mesh).primitives
             IN  \A p \in 1..Len(gltfPrimitives) :
                   /\ \A i \in 1..Len(gltfPrimitives[p].attributes) :
                        Built(gltfPrimitives[p].attributes[i],
                              primitives[p].vertexAttributes[i])
                   /\ defined(gltfPrimitives[p].indices) =>
                        Built(value(gltfPrimitives[p].indices),
                              value(primitives[p].indices))
                   /\ Len(gltfPrimitives) = 1 =>
                        /\ Issued("attribute") = Viewed(gltfPrimitives[p].attributes)
                        /\ Issued("indices") = Viewed(gltfPrimitives[p].indices)

\* C23: for every glTF material, loadMaterial issues one texture request
\* for each texture slot the glTF material references and none for the
\* others, and the runtime material has a texture exactly in the referenced
\* slots.
C23_OneRequestPerTextureSlot ==
  LET Issued(slot) ==
        Cardinality({i \in 1..Len(model.requests) :
                       /\ model.requests[i].fn = "loadTexture"
                       /\ model.requests[i].for = slot})
      Referenced(slot) ==
        Cardinality({np \in {q \in (1..Len(scene.nodes)) \X (1..2) :
                               q[2] <= Len(value(scene.nodes[q[1]].mesh))} :
                       LET gltfPrimitive == value(scene.nodes[np[1]].mesh)[np[2]]
                       IN  /\ defined(gltfPrimitive.material)
                           /\ defined(value(gltfPrimitive.material)[slot])})
  IN  (model.parsed /\ ~model.parseThrew) =>
        \A s \in 1..Len(SlotOrder) :
          /\ Issued(SlotOrder[s]) = Referenced(SlotOrder[s])
          /\ \A n \in 1..Len(scene.nodes) :
               LET gltfPrimitives == value(scene.nodes[n].mesh)
                   node == value(SelectSeq(value(model.nodes), defined)[n])
                   primitives == value(node.mesh).primitives
               IN  \A p \in 1..Len(gltfPrimitives) :
                     defined(gltfPrimitives[p].material) =>
                       /\ defined(primitives[p].material)
                       /\ defined(value(primitives[p].material)[SlotOrder[s]])
                            <=> defined(value(gltfPrimitives[p].material)[SlotOrder[s]])

\* C24: a vertex buffer request for a morph-target attribute never carries
\* the Draco extension, also when the primitive is Draco-compressed; a
\* request for an attribute or the indices of a primitive carries the Draco
\* extension that primitive declares (the primitives of one document agree
\* on it), and a Draco extension is carried by two such requests for a
\* Draco primitive with one attribute and indices.
C24_MorphTargetsWithoutDraco ==
  LET Declared ==
        {value(scene.nodes[q[1]].mesh)[q[2]].draco :
           q \in {q \in (1..Len(scene.nodes)) \X (1..2) :
                    q[2] <= Len(value(scene.nodes[q[1]].mesh))}}
      Carrying ==
        {i \in 1..Len(model.requests) : defined(model.requests[i].draco)}
  IN  /\ \A i \in 1..Len(model.requests) :
           /\ model.requests[i].for = "morphTarget" =>
                ~defined(model.requests[i].draco)
           /\ model.requests[i].for \in {"attribute", "indices"} =>
                model.requests[i].draco \in Declared
      /\ (model.parsed /\ ~model.parseThrew /\ Declared # {undefined}
          /\ scene.nodes # <<>>) =>
           Cardinality(Carrying) = 2

\* The Draco primitive with a morph target has been walked: its attribute
\* and its indices were requested with the extension, the attribute of its
\* morph target without.
C24_Witness ==
  /\ model.parsed
  /\ \E i, j, k \in 1..Len(model.requests) :
       /\ model.requests[i].for = "attribute" /\ defined(model.requests[i].draco)
       /\ model.requests[j].for = "morphTarget" /\ ~defined(model.requests[j].draco)
       /\ model.requests[k].for = "indices" /\ defined(model.requests[k].draco)

C26_UnloadReleasesEveryChild ==
  \A id \in Ids :
    (/\ loaders[id].kind = "featureMetadata"
     /\ \/ clientRefs[id] = 0
        \/ loaders[id].state = "FAILED"
        \/ loaders[id].sawUnloaded) =>
      loaders[id].refsHeld = 0

\* ------------------------------------------------------- the runtime update
\* C28: in the document whose two primitives reference the same texture,
\* the two runtime textures hold the same texture loader, which is the only
\* one and has reference count two; and once update() has been called on
\* the model, it has completed and both textures expose the loader's GPU
\* texture.
C28_SharedTextureSameHandle ==
  LET node == value(SelectSeq(value(model.nodes), defined)[1])
      primitives == value(node.mesh).primitives
      first == value(value(primitives[1].material).baseColorTexture)
      second == value(value(primitives[2].material).baseColorTexture)
      loader == value(first.cacheResource)
  IN  (/\ Len(scene.nodes) = 1 /\ Len(value(scene.nodes[1].mesh)) = 2
       /\ model.parsed /\ ~model.parseThrew) =>
        /\ first.cacheResource = second.cacheResource
        /\ Cardinality({id \in Ids : loaders[id].kind = "texture"}) = 1
        /\ loaders[loader].cacheKey \in DOMAIN cacheEntries
        /\ cacheEntries[loaders[loader].cacheKey].referenceCount = 2
        /\ model.updated =>
             /\ ~model.updateThrew
             /\ first.texture = loaders[loader].result
             /\ second.texture = loaders[loader].result

\* C29: a call of update() on the model of a parsed document completes
\* without error, also when a component has a constant value and no cache
\* resource; every component with a cache resource (attributes, attributes
\* of morph targets, indices, textures) then exposes what its cache
\* resource exposes; and update() returns true exactly if every one of them
\* exposes a GPU resource.
C29_UpdateReachesEveryComponent ==
  LET nodes == SelectSeq(value(model.nodes), defined)
      Primitives(n) == value(value(nodes[n]).mesh).primitives
      Textures(primitive) ==
        IF defined(primitive.material)
        THEN {<<value(value(primitive.material)[SlotOrder[s]]), "texture">> :
                s \in {s \in 1..Len(SlotOrder) :
                         defined(value(primitive.material)[SlotOrder[s]])}}
        ELSE {}
      Attributes(list) == {<<list[i], "vertexBuffer">> : i \in 1..Len(list)}
      Components(primitive) ==
        Attributes(primitive.vertexAttributes)
          \cup UNION {Attributes(primitive.morphTargets[t].vertexAttributes) :
                        t \in 1..Len(primitive.morphTargets)}
          \cup (IF defined(primitive.indices)
                THEN {<<value(primitive.indices), "indexBuffer">>} ELSE {})
          \cup Textures(primitive)
      All == UNION {Components(Primitives(q[1])[q[2]]) :
                      q \in {q \in (1..Len(nodes)) \X (1..2) :
                               q[2] <= Len(Primitives(q[1]))}}
      Loaded == {c \in All : defined(c[1].cacheResource)}
  IN  (model.updated /\ model.parsed /\ ~model.parseThrew) =>
        /\ ~model.updateThrew
        /\ defined(model.ready)
        /\ \A c \in Loaded :
             c[1][c[2]] = loaders[value(c[1].cacheResource)].result
        /\ value(model.ready) <=> \A c \in Loaded : defined(c[1][c[2]])

\* ------------------------------------------------------------- termination
\* C30: every loader on which load() was called and which was neither
\* destroyed nor unloaded by its owner ends READY or FAILED with its promise
\* settled: once its last continuation has run (a LOADING Draco loader
\* still waits for update()), it is in one of the two states and its
\* promise is no longer pending.
C30_LoadedLoaderSettles ==
  \A id \in Ids :
    (/\ loaders[id].loadCalls > 0
     /\ loaders[id].pc = "done"
     /\ ~loaders[id].isDestroyed
     /\ ~(loaders[id].kind = "draco" /\ loaders[id].state = "LOADING")
     /\ loaders[id].kind = "featureMetadata" => clientRefs[id] > 0) =>
      /\ loaders[id].state \in {"READY", "FAILED"}
      /\ loaders[id].promise # "pending"

\* ------------------------------------------------- release of child loaders
\* C31: a loader never calls the cache's unload on its child loaders more
\* often than it called the cache's load for them: the references it holds
\* never number less than zero, whatever the order of success, failure and
\* destroy.
C31_UnloadsNeverExceedLoads ==
  \A id \in Ids : loaders[id].refsHeld >= 0

\* C32: whatever the order of destroy() and the resolution of the glTF JSON
\* loader's promise, the GltfLoader releases the glTF JSON loader once: at
\* most one release, and exactly one and no reference left once it is
\* destroyed or its handler has run; and after destroy() no step parses:
\* the model's nodes are what they were and no cache request is issued.
\* (No other owner releases the glTF JSON loader in these runs.)
C32_JsonReleasedOnceAndNoParseAfterDestroy ==
  /\ [](gltfLoader.pc # "new" =>
          /\ loaders[value(gltfLoader.dep)].cacheUnloads <= 1
          /\ (gltfLoader.isDestroyed \/ gltfLoader.pc = "done") =>
               /\ loaders[value(gltfLoader.dep)].cacheUnloads = 1
               /\ ~defined(gltfLoader.gltfCacheResource))
  /\ [][gltfLoader.isDestroyed =>
          /\ model'.nodes = model.nodes
          /\ model'.parsed = model.parsed
          /\ model'.requests = model.requests]_vars

\* destroy() came first: the glTF JSON loader, kept alive by another owner,
\* resolved afterwards and the handler of the destroyed GltfLoader has run.
C32_Witness ==
  /\ gltfLoader.isDestroyed
  /\ gltfLoader.pc = "done"
  /\ loaders[value(gltfLoader.dep)].promise = "resolved"
  /\ ~model.parsed
  /\ scene.nodes # <<>>

\* C33: when the glTF JSON loader that GltfLoader.load requested has failed
\* and no handler is left to run, a GltfLoader that has not been destroyed
\* holds no reference on that loader, and the owning model is FAILED.
C33_JsonFailureReleasesAndReachesModel ==
  (/\ Quiescent
   /\ gltfLoader.pc # "new"
   /\ ~gltfLoader.isDestroyed
   /\ loaders[value(gltfLoader.dep)].promise = "rejected")
    => /\ ~defined(gltfLoader.gltfCacheResource)
       /\ model.state = "FAILED"

\* C39: the Model.update call that takes the model out of UNLOADED invokes
\* the loader's load (the GltfLoader leaves its constructed state in that
\* call), the state never moves backwards, and READY and FAILED are final.
C39_ModelStateForwardAndLoadOnce ==
  [][/\ (model.state = "UNLOADED" /\ model'.state # "UNLOADED")
          => (gltfLoader.pc = "new" /\ gltfLoader'.pc # "new")
     /\ model.state \in {"READY", "FAILED"} => model'.state = model.state
     /\ model.state # "UNLOADED" => model'.state # "UNLOADED"]_vars

\* C34: once parse has assigned model.nodes, the list has exactly one entry
\* per node id of the scene, in order, and none of them is empty: the i-th
\* entry is a Node, with a mesh exactly when the i-th glTF node has one.
C34_LoadNodesOnePerId ==
  (model.parsed /\ defined(model.nodes)) =>
    /\ Len(value(model.nodes)) = Len(scene.nodes)
    /\ \A i \in 1..Len(value(model.nodes)) :
         /\ defined(value(model.nodes)[i])
         /\ i <= Len(scene.nodes) =>
              defined(value(value(model.nodes)[i]).mesh) = defined(scene.nodes[i].mesh)

\* C35: after parse, the Node built from each glTF node (the entries of
\* model.nodes that are nodes, in order) has instances with one vertex
\* attribute per attribute of the node's GPU instancing extension, and each
\* of its primitives has one defined FeatureIdAttribute per feature-ID
\* attribute that the glTF primitive declares.
C35_FeatureIdsAndInstancesAttached ==
  LET Built == SelectSeq(value(model.nodes), defined)
      Declared(gltfPrimitive) ==
        IF /\ defined(gltfPrimitive.featureMetadata)
           /\ defined(value(gltfPrimitive.featureMetadata).featureIdAttributes)
        THEN Len(value(value(gltfPrimitive.featureMetadata).featureIdAttributes))
        ELSE 0
      Attached(gltfNode, node) ==
        /\ defined(gltfNode.extensions) =>
             /\ defined(node.instances)
             /\ Len(value(node.instances).vertexAttributes)
                  = Len(value(gltfNode.extensions))
        /\ (defined(gltfNode.mesh) /\ defined(node.mesh)) =>
             \A p \in 1..Len(value(gltfNode.mesh)) :
               p <= Len(value(node.mesh).primitives) =>
                 /\ Len(value(node.mesh).primitives[p].featureIdAttributes)
                      = Declared(value(gltfNode.mesh)[p])
                 /\ \A k \in 1..Len(value(node.mesh).primitives[p].featureIdAttributes) :
                      defined(value(node.mesh).primitives[p].featureIdAttributes[k])
  IN  (model.parsed /\ ~model.parseThrew /\ defined(model.nodes)) =>
        \A i \in 1..Len(scene.nodes) :
          i <= Len(Built) => Attached(scene.nodes[i], value(Built[i]))

\* C36: after loadBufferViews, every buffer view id that some property of
\* some feature table references (as bufferView, arrayOffsetBufferView or
\* stringOffsetBufferView) has been requested from the cache exactly once,
\* however many properties or tables reference it, and no other id has been
\* requested.
C36_OneRequestPerDistinctBufferView ==
  LET Tables == IF defined(extension.featureTables)
                THEN value(extension.featureTables)
                ELSE <<>>
      Properties(table) == IF defined(table.properties)
                           THEN value(table.properties)
                           ELSE <<>>
      Referenced ==
        {id \in 0..1 :
           \E t \in 1..Len(Tables) :
             \E p \in 1..Len(Properties(Tables[t])) :
               <<id>> \in {Properties(Tables[t])[p].bufferView,
                           Properties(Tables[t])[p].arrayOffsetBufferView,
                           Properties(Tables[t])[p].stringOffsetBufferView}}
  IN  extension.pc = "done" =>
        /\ \A id \in Referenced :
             Cardinality({i \in 1..Len(extension.requests) :
                            extension.requests[i] = id}) = 1
        /\ \A i \in 1..Len(extension.requests) : extension.requests[i] \in Referenced

\* Two feature tables whose properties reference buffer view 1 five times
\* and buffer view 0 never: one request, for buffer view 1.
C36_Witness ==
  /\ extension.pc = "done"
  /\ extension.featureTables =
       <<<<[properties |-> <<<<[bufferView |-> <<1>>,
                               arrayOffsetBufferView |-> <<1>>,
                               stringOffsetBufferView |-> <<1>>]>>>>],
           [properties |-> <<<<[bufferView |-> <<1>>,
                               arrayOffsetBufferView |-> undefined,
                               stringOffsetBufferView |-> <<1>>]>>>>]>>>>
  /\ extension.requests = <<1>>

\* C40 as stated: getBranchingFactor returns 4 for QUADTREE and 8 for
\* OCTREE, and for every other value the call raises the DeveloperError.
C40_OtherValueAlwaysRaises ==
  subdivision.pc = "done" =>
    CASE subdivision.subdivisionScheme = "QUADTREE" ->
           subdivision.result = <<4>> /\ ~subdivision.threw
      [] subdivision.subdivisionScheme = "OCTREE" ->
           subdivision.result = <<8>> /\ ~subdivision.threw
      [] OTHER -> subdivision.threw

\* C40, amended: getBranchingFactor returns 4 for QUADTREE and 8 for OCTREE;
\* for every other value it returns no number: it raises the DeveloperError
\* in a debug build and returns undefined in a build without the debug
\* pragmas.
C40_BranchingFactor ==
  subdivision.pc = "done" =>
    CASE subdivision.subdivisionScheme = "QUADTREE" ->
           subdivision.result = <<4>> /\ ~subdivision.threw
      [] subdivision.subdivisionScheme = "OCTREE" ->
           subdivision.result = <<8>> /\ ~subdivision.threw
      [] OTHER -> /\ ~defined(subdivision.result)
                  /\ subdivision.threw = subdivision.debug

\* A value that is no subdivision scheme, in a build without the debug
\* pragmas: the call returned undefined.
C40_Witness ==
  /\ subdivision.pc = "done"
  /\ subdivision.subdivisionScheme = "quadtree"
  /\ ~subdivision.debug
  /\ ~subdivision.threw
  /\ ~defined(subdivision.result)

\* C37: a step starts a decode task of a Draco loader only if the loader has
\* its buffer view bytes and has started no decode before, it starts one
\* task, and a loader that has started a decode stays marked as having done
\* so: over its lifetime the loader starts at most one decode, and none
\* before the bytes are there, whenever update() is called.
C37_DecodeStartedAtMostOnce ==
  [][\A id \in Ids :
       loaders[id].kind = "draco" =>
         /\ loaders'[id].decodes > loaders[id].decodes =>
              /\ defined(loaders[id].bufferViewTypedArray)
              /\ ~loaders[id].decodePromise
              /\ loaders[id].decodes = 0
              /\ loaders'[id].decodes = 1
              /\ loaders'[id].decodePromise
         /\ loaders[id].decodePromise => loaders'[id].decodePromise]_vars

\* A Draco loader that started its decode, became READY by it, and had
\* update() called again afterwards.
C37_Witness ==
  \E id \in Ids :
    /\ loaders[id].kind = "draco"
    /\ loaders[id].decodePromise
    /\ loaders[id].decodes = 0
    /\ loaders[id].state = "READY"
    /\ loaders[id].updatedIn = <<"READY">>

\* C38: an image loader that loads from a buffer view holds its one cache
\* reference on the buffer view loader for as long as it is LOADING; once it
\* is READY it holds the image, no buffer view loader and no reference; and
\* at no time, destroy() after READY included, has it released more than it
\* acquired.
C38_ImageBufferViewReleasedOnce ==
  \A id \in Ids :
    (loaders[id].kind = "image" /\ loaders[id].cacheKey = ImageKey) =>
      /\ loaders[id].state = "LOADING" =>
           /\ defined(loaders[id].child)
           /\ loaders[id].refsHeld = 1
      /\ loaders[id].state = "READY" =>
           /\ loaders[id].result = <<"image">>
           /\ ~defined(loaders[id].child)
           /\ loaders[id].refsHeld = 0
      /\ loaders[id].state \in {"FAILED", "DESTROYED"} =>
           /\ ~defined(loaders[id].child)
           /\ loaders[id].refsHeld = 0

\* An embedded image loader that became READY and was destroyed afterwards.
C38_Witness ==
  \E id \in Ids :
    /\ loaders[id].kind = "image" /\ loaders[id].cacheKey = ImageKey
    /\ loaders[id].promise = "resolved"
    /\ loaders[id].isDestroyed
    /\ loaders[id].refsHeld = 0
    /\ loaders[value(loaders[id].dep)].cacheUnloads >= 1

====
